---------------------------- MODULE Spec2Model ----------------------------
(***************************************************************************)
(* A model of the Anthropic <-> OpenAI bridge: RequestConverter,           *)
(* ResponseConverter, ToolConverter and AnthropicOpenAIBridge.send_message.*)
(*                                                                         *)
(* Python values are modelled with their dynamic type:                     *)
(*   - a str whose characters matter (ids, text, JSON) is a sequence of    *)
(*     one-character strings; a str that is only compared (role, type,     *)
(*     finish_reason, model, tool name) is a TLA+ string;                  *)
(*   - a dict with optional keys is a function whose DOMAIN is the set of  *)
(*     keys present, so  "k" \in DOMAIN d  is  "k" in d ;                  *)
(*   - a value whose Python type varies is tagged: [ty |-> "str", v |-> s],*)
(*     [ty |-> "list", v |-> l], [ty |-> "dict", v |-> d], [ty |-> "none"];*)
(*   - a call that may raise returns Ok(v) or Raise(e).                    *)
(***************************************************************************)
EXTENDS Integers, Sequences, FiniteSets, TLC

VARIABLES
    call,                \* the last direct call of a converter method
    pc,                  \* position of AnthropicOpenAIBridge.send_message
    sm_request,          \* send_message: its argument
    sm_openai_request,   \* send_message: result of request_converter.convert
    sm_openai_response,  \* send_message: result of create_chat_completion
    sm_result,           \* send_message: Ok(message) returned / Raise(text)
    turn,                \* "fresh" or "followup": how the caller built the request
    sm_calls,            \* send_message: the calls it has made, in order
    bridge,              \* the construction of the AnthropicOpenAIBridge in use
    threads              \* the send_message calls of concurrent threads

vars == <<call, pc, sm_request, sm_openai_request, sm_openai_response,
          sm_result, turn, sm_calls, bridge, threads>>

-----------------------------------------------------------------------------
(* Bounds of the model.                                                    *)

MaxIdParts == 2      \* an id is a concatenation of at most this many parts
MaxArgParts == 5     \* a function.arguments string has at most this many lexemes
MaxTextLen == 2      \* characters of a text
MaxBlocks == 2       \* blocks of a content list given to a converter method
MaxTools == 2        \* tool definitions of a request
MaxCalls == 2        \* tool calls of a provider message
MaxMsgs == 2
MaxThreads == 2         \* messages of a request

-----------------------------------------------------------------------------
(* Python values.                                                          *)

PyNone == [ty |-> "none"]
PyStr(s) == [ty |-> "str", v |-> s]
PyInt(n) == [ty |-> "int", v |-> n]
PyList(l) == [ty |-> "list", v |-> l]
PyDict(d) == [ty |-> "dict", v |-> d]

Ok(v) == [exc |-> "none", v |-> v]
Raise(e) == [exc |-> e]
RaiseMsg(e, text) == [exc |-> e, msg |-> text]
Raised(r) == r.exc # "none"

EmptyDict == [k \in {} |-> 0]    \* a dict without keys

RECURSIVE Concat(_)
Concat(ss) ==
    IF ss = <<>> THEN <<>> ELSE Head(ss) \o Concat(Tail(ss))

\* All sequences over S of length at most n.
SeqsUpTo(S, n) == UNION {[1..k -> S] : k \in 0..n}

\* str.startswith
StartsWith(s, prefix) ==
    Len(s) >= Len(prefix) /\ SubSeq(s, 1, Len(prefix)) = prefix

\* s[n:]
DropFirst(s, n) == SubSeq(s, n + 1, Len(s))

CALL_ == <<"c", "a", "l", "l", "_">>
TOOLU_ == <<"t", "o", "o", "l", "u", "_">>


-----------------------------------------------------------------------------
(* json.loads and json.dumps on the lexemes the model draws from.          *)

QUOTE == "\""
Digits == {"1"}
IsSpace(c) == c = " "

\* A dict is kept as a sequence of <<key, value>> pairs in insertion order.
RECURSIVE DictSet(_, _, _)
DictSet(d, k, v) ==
    IF d = <<>> THEN << <<k, v>> >>
    ELSE IF Head(d)[1] = k THEN << <<k, v>> >> \o Tail(d)
    ELSE <<Head(d)>> \o DictSet(Tail(d), k, v)

\* Index of the first character at or after i that is no white space.
RECURSIVE SkipSpace(_, _)
SkipSpace(s, i) ==
    IF i <= Len(s) /\ IsSpace(s[i]) THEN SkipSpace(s, i + 1) ELSE i

\* Index of the first QUOTE at or after i, or 0.
RECURSIVE FindQuote(_, _)
FindQuote(s, i) ==
    IF i > Len(s) THEN 0
    ELSE IF s[i] = QUOTE THEN i
    ELSE FindQuote(s, i + 1)

\* Index after the digits that start at i.
RECURSIVE SkipDigits(_, _)
SkipDigits(s, i) ==
    IF i <= Len(s) /\ s[i] \in Digits THEN SkipDigits(s, i + 1) ELSE i

DigitValue(c) == IF c = "1" THEN 1 ELSE 0

RECURSIVE DecimalValue(_)
DecimalValue(ds) ==
    IF ds = <<>> THEN 0
    ELSE 10 * DecimalValue(SubSeq(ds, 1, Len(ds) - 1)) + DigitValue(ds[Len(ds)])

NoParse == [ok |-> FALSE]
Parsed(v, next) == [ok |-> TRUE, v |-> v, next |-> next]

\* The scanner of json.loads: a value that starts at s[i]; next is the index
\* after it. Each step is an operator of its own.
RECURSIVE ScanValue(_, _), ScanMembers(_, _, _)

\* After a member's value: "}" ends the object, "," starts the next member.
MemberEnd(s, d, e) ==
    IF e > Len(s) THEN NoParse
    ELSE IF s[e] = "}" THEN Parsed(PyDict(d), e + 1)
    ELSE IF s[e] = "," THEN ScanMembers(s, SkipSpace(s, e + 1), d)
    ELSE NoParse

MemberValue(s, d, key, val) ==
    IF ~val.ok THEN NoParse
    ELSE MemberEnd(s, DictSet(d, key, val.v), SkipSpace(s, val.next))

\* After a member's key: the colon at s[c], then the value.
MemberColon(s, d, key, c) ==
    IF c > Len(s) \/ s[c] # ":" THEN NoParse
    ELSE MemberValue(s, d, key, ScanValue(s, SkipSpace(s, c + 1)))

\* The key that starts at the QUOTE s[i] and ends at the QUOTE s[q].
MemberKey(s, i, d, q) ==
    IF q = 0 THEN NoParse
    ELSE MemberColon(s, d, SubSeq(s, i + 1, q - 1), SkipSpace(s, q + 1))

\* The members of an object from the key that must start at s[i].
ScanMembers(s, i, d) ==
    IF i > Len(s) \/ s[i] # QUOTE THEN NoParse
    ELSE MemberKey(s, i, d, FindQuote(s, i + 1))

\* A string from the QUOTE s[i] to the QUOTE s[j].
ScanString(s, i, j) ==
    IF j = 0 THEN NoParse
    ELSE Parsed(PyStr(SubSeq(s, i + 1, j - 1)), j + 1)

\* An object whose first character after "{" and white space is s[j].
ScanObject(s, j) ==
    IF j <= Len(s) /\ s[j] = "}" THEN Parsed(PyDict(<<>>), j + 1)
    ELSE ScanMembers(s, j, <<>>)

\* The digits s[i..j-1].
ScanNumber(s, i, j) == Parsed(PyInt(DecimalValue(SubSeq(s, i, j - 1))), j)

ScanValue(s, i) ==
    IF i > Len(s) THEN NoParse
    ELSE IF s[i] = QUOTE THEN ScanString(s, i, FindQuote(s, i + 1))
    ELSE IF s[i] \in Digits THEN ScanNumber(s, i, SkipDigits(s, i))
    ELSE IF s[i] = "{" THEN ScanObject(s, SkipSpace(s, i + 1))
    ELSE NoParse

\* The end of json.loads: nothing but white space may follow the value.
LoadsResult(s, r) ==
    IF ~r.ok THEN Raise("JSONDecodeError")
    ELSE IF SkipSpace(s, r.next) # Len(s) + 1 THEN Raise("JSONDecodeError")
    ELSE Ok(r.v)

\* json.loads(x): TypeError unless x is a str; JSONDecodeError unless the whole
\* string is one JSON value between optional white space.
json_loads(x) ==
    IF x.ty # "str" THEN Raise("TypeError")
    ELSE LoadsResult(x.v, ScanValue(x.v, SkipSpace(x.v, 1)))

DigitChar(n) == IF n = 1 THEN "1" ELSE "0"

RECURSIVE DecimalDigits(_)
DecimalDigits(n) ==
    IF n < 10 THEN <<DigitChar(n)>>
    ELSE DecimalDigits(n \div 10) \o <<DigitChar(n % 10)>>

\* json.dumps(x) with the default separators ", " and ": ".
RECURSIVE json_dumps(_), DumpMembers(_)
json_dumps(x) ==
    IF x.ty = "str" THEN <<QUOTE>> \o x.v \o <<QUOTE>>
    ELSE IF x.ty = "int" THEN DecimalDigits(x.v)
    ELSE IF x.ty = "none" THEN <<"n", "u", "l", "l">>
    ELSE <<"{">> \o DumpMembers(x.v) \o <<"}">>

DumpMembers(d) ==
    IF d = <<>> THEN <<>>
    ELSE <<QUOTE>> \o Head(d)[1] \o <<QUOTE, ":", " ">> \o json_dumps(Head(d)[2])
         \o (IF Len(d) > 1 THEN <<",", " ">> ELSE <<>>) \o DumpMembers(Tail(d))

-----------------------------------------------------------------------------
(* ToolConverter                                                           *)

_convert_tool_call_id(openai_call_id) ==
    LET suffix == IF StartsWith(openai_call_id, CALL_)
                  THEN DropFirst(openai_call_id, 5)
                  ELSE openai_call_id
    IN  TOOLU_ \o suffix

_convert_tool_use_id_to_call_id(anthropic_tool_use_id) ==
    LET suffix == IF StartsWith(anthropic_tool_use_id, TOOLU_)
                  THEN DropFirst(anthropic_tool_use_id, 6)
                  ELSE anthropic_tool_use_id
    IN  CALL_ \o suffix


\* dict.get(key, default)
Get(d, key, default) == IF key \in DOMAIN d THEN d[key] ELSE default

\* isinstance(x, dict) for an element of a content list: a block is a dict with
\* string keys; any other element carries its Python type tag.
IsDictBlock(b) == "ty" \notin DOMAIN b

\* Mutant: the description is dropped from the function definition.
Mut_convert_anthropic_tools_to_openai(anthropic_tools) ==
    [i \in 1..Len(anthropic_tools) |->
        [type |-> "function",
         function |-> [name |-> anthropic_tools[i].name,
                       description |-> "",
                       parameters |-> anthropic_tools[i].input_schema]]]

convert_anthropic_tools_to_openai(anthropic_tools) ==
    [i \in 1..Len(anthropic_tools) |->
        [type |-> "function",
         function |-> [name |-> anthropic_tools[i].name,
                       description |-> anthropic_tools[i].description,
                       parameters |-> anthropic_tools[i].input_schema]]]

\* The ToolUseBlock built from a tool call and json.loads of its arguments:
\* json.JSONDecodeError is caught (input is {}), any other exception escapes.
ToolUseBlockFrom(tool_call, parsed) ==
    IF parsed.exc = "none" THEN
        Ok([type |-> "tool_use",
            id |-> _convert_tool_call_id(tool_call.id),
            name |-> tool_call.function.name,
            input |-> parsed.v])
    ELSE IF parsed.exc = "JSONDecodeError" THEN
        Ok([type |-> "tool_use",
            id |-> _convert_tool_call_id(tool_call.id),
            name |-> tool_call.function.name,
            input |-> PyDict(<<>>)])
    ELSE Raise(parsed.exc)

\* The body of the loop for one tool call of type "function".
ToolUseBlockOf(tool_call) ==
    ToolUseBlockFrom(tool_call, json_loads(tool_call.function.arguments))

RECURSIVE ToolCallsLoop(_, _)

\* The loop goes on with block appended, unless building it raised.
ToolCallsStep(rest, tool_use_blocks, block) ==
    IF Raised(block) THEN block
    ELSE ToolCallsLoop(rest, Append(tool_use_blocks, block.v))

ToolCallsLoop(openai_tool_calls, tool_use_blocks) ==
    IF openai_tool_calls = <<>> THEN Ok(tool_use_blocks)
    ELSE IF Head(openai_tool_calls).type = "function" THEN
        ToolCallsStep(Tail(openai_tool_calls), tool_use_blocks,
                      ToolUseBlockOf(Head(openai_tool_calls)))
    ELSE ToolCallsLoop(Tail(openai_tool_calls), tool_use_blocks)

convert_openai_tool_calls_to_anthropic(openai_tool_calls) ==
    ToolCallsLoop(openai_tool_calls, <<>>)

\* Mutant: the tool message carries the inbound id as it is.
Mut_ToolMessageOf(content_block) ==
    [role |-> "tool",
     tool_call_id |-> content_block.tool_use_id,
     name |-> Get(content_block, "name", "unknown"),
     content |-> content_block.content]

\* The tool-role message of one tool_result block.
ToolMessageOf(content_block) ==
    [role |-> "tool",
     tool_call_id |-> _convert_tool_use_id_to_call_id(content_block.tool_use_id),
     name |-> Get(content_block, "name", "unknown"),
     content |-> content_block.content]

\* content_block.get raises AttributeError when the element is no dict.
RECURSIVE ToolResultsLoop(_, _)

\* Mutant: the loop ends at the first block that is no tool_result.
Mut_ToolResultsLoop(anthropic_content, tool_messages) ==
    IF anthropic_content = <<>> THEN Ok(tool_messages)
    ELSE IF ~IsDictBlock(Head(anthropic_content)) THEN Raise("AttributeError")
    ELSE IF Get(Head(anthropic_content), "type", "") = "tool_result" THEN
        ToolResultsLoop(Tail(anthropic_content),
                        Append(tool_messages, ToolMessageOf(Head(anthropic_content))))
    ELSE Ok(tool_messages)

ToolResultsLoop(anthropic_content, tool_messages) ==
    IF anthropic_content = <<>> THEN Ok(tool_messages)
    ELSE IF ~IsDictBlock(Head(anthropic_content)) THEN Raise("AttributeError")
    ELSE IF Get(Head(anthropic_content), "type", "") = "tool_result" THEN
        ToolResultsLoop(Tail(anthropic_content),
                        Append(tool_messages, ToolMessageOf(Head(anthropic_content))))
    ELSE ToolResultsLoop(Tail(anthropic_content), tool_messages)

convert_anthropic_tool_results_to_openai(anthropic_content) ==
    ToolResultsLoop(anthropic_content, <<>>)

convert_tool_choice_to_openai(anthropic_tool_choice) ==
    IF anthropic_tool_choice.ty = "str" THEN
        IF anthropic_tool_choice.v = "auto" THEN Ok(PyStr("auto"))
        ELSE IF anthropic_tool_choice.v = "any" THEN Ok(PyStr("required"))
        ELSE Ok(anthropic_tool_choice)
    ELSE IF anthropic_tool_choice.ty = "dict"
            /\ "type" \in DOMAIN anthropic_tool_choice.v
            /\ anthropic_tool_choice.v.type = "tool"
    THEN IF "name" \in DOMAIN anthropic_tool_choice.v
         THEN Ok(PyDict([type |-> "function",
                         function |-> [name |-> anthropic_tool_choice.v.name]]))
         ELSE Raise("KeyError")
    ELSE Ok(anthropic_tool_choice)

-----------------------------------------------------------------------------
(* RequestConverter                                                        *)

\* [block for block in content if isinstance(block, dict)
\*                                 and block.get("type") == type]
RECURSIVE BlocksOfType(_, _)
BlocksOfType(content, type) ==
    IF content = <<>> THEN <<>>
    ELSE (IF IsDictBlock(Head(content)) /\ Get(Head(content), "type", "") = type
          THEN <<Head(content)>> ELSE <<>>)
         \o BlocksOfType(Tail(content), type)

\* " ".join(block["text"] for block in text_blocks)
RECURSIVE JoinText(_)
JoinText(text_blocks) ==
    IF text_blocks = <<>> THEN <<>>
    ELSE IF Len(text_blocks) = 1 THEN Head(text_blocks).text
    ELSE Head(text_blocks).text \o <<" ">> \o JoinText(Tail(text_blocks))

\* bool(s.strip()): some character of s is no white space.
NonBlank(s) == \E i \in 1..Len(s) : ~IsSpace(s[i])

\* Mutant: the tool_use id is passed through unmapped.
Mut_ToolCallOf(block) ==
    [id |-> block.id,
     type |-> "function",
     function |-> [name |-> block.name,
                   arguments |-> PyStr(json_dumps(block.input))]]

\* The tool call that _convert_message_content builds from one tool_use block.
ToolCallOf(block) ==
    [id |-> _convert_tool_use_id_to_call_id(block.id),
     type |-> "function",
     function |-> [name |-> block.name,
                   arguments |-> PyStr(json_dumps(block.input))]]

\* The regular text message, if the joined text is not blank.
RegularMessages(role, text_blocks, text_content) ==
    IF text_blocks # <<>> /\ NonBlank(text_content)
    THEN <<[role |-> role, content |-> PyStr(text_content)]>>
    ELSE <<>>

\* Mutant: the tool messages come before the regular message.
Mut_ToolResultMessages(regular_messages, tool_messages) ==
    IF Raised(tool_messages) THEN tool_messages
    ELSE Ok(PyList(tool_messages.v \o regular_messages))

\* The branch for a content with tool_result blocks: the regular message, then
\* the tool messages.
ToolResultMessages(regular_messages, tool_messages) ==
    IF Raised(tool_messages) THEN tool_messages
    ELSE Ok(PyList(regular_messages \o tool_messages.v))

\* The branch for a content with tool_use blocks and no tool_result block.
ToolUseMessage(role, tool_use_blocks, text_blocks, text_content) ==
    [role |-> role,
     content |-> IF text_blocks # <<>> /\ NonBlank(text_content)
                 THEN PyStr(text_content) ELSE PyNone,
     tool_calls |-> [i \in 1..Len(tool_use_blocks) |->
                        ToolCallOf(tool_use_blocks[i])]]

\* Mutant: a block list without tool blocks gives a message even when its
\* joined text is blank.
Mut_ConvertBlocks(role, content, tool_result_blocks, tool_use_blocks, text_blocks, text_content) ==
    IF tool_result_blocks # <<>> THEN
        ToolResultMessages(RegularMessages(role, text_blocks, text_content),
                           convert_anthropic_tool_results_to_openai(content))
    ELSE IF tool_use_blocks # <<>> THEN
        Ok(PyDict(ToolUseMessage(role, tool_use_blocks, text_blocks, text_content)))
    ELSE Ok(PyDict([role |-> role, content |-> PyStr(text_content)]))

\* Mutant: the tool_use blocks are looked for before the tool_result blocks.
Mut_ConvertBlocksToolUseFirst(role, content, tool_result_blocks, tool_use_blocks, text_blocks, text_content) ==
    IF tool_use_blocks # <<>> THEN
        Ok(PyDict(ToolUseMessage(role, tool_use_blocks, text_blocks, text_content)))
    ELSE IF tool_result_blocks # <<>> THEN
        ToolResultMessages(RegularMessages(role, text_blocks, text_content),
                           convert_anthropic_tool_results_to_openai(content))
    ELSE IF text_blocks # <<>> /\ NonBlank(text_content) THEN
        Ok(PyDict([role |-> role, content |-> PyStr(text_content)]))
    ELSE Ok(PyNone)

\* The branches of _convert_message_content for a list content.
ConvertBlocks(role, content, tool_result_blocks, tool_use_blocks, text_blocks, text_content) ==
    IF tool_result_blocks # <<>> THEN
        ToolResultMessages(RegularMessages(role, text_blocks, text_content),
                           convert_anthropic_tool_results_to_openai(content))
    ELSE IF tool_use_blocks # <<>> THEN
        Ok(PyDict(ToolUseMessage(role, tool_use_blocks, text_blocks, text_content)))
    ELSE IF text_blocks # <<>> /\ NonBlank(text_content) THEN
        Ok(PyDict([role |-> role, content |-> PyStr(text_content)]))
    ELSE Ok(PyNone)

\* Mutant: a string content is filtered like a block list: a blank string
\* gives no message.
Mut_convert_message_content(message) ==
    IF message.content.ty = "str" THEN
        IF NonBlank(message.content.v)
        THEN Ok(PyDict([role |-> message.role, content |-> message.content]))
        ELSE Ok(PyNone)
    ELSE IF message.content.ty = "list" THEN
        ConvertBlocks(message.role, message.content.v,
                      BlocksOfType(message.content.v, "tool_result"),
                      BlocksOfType(message.content.v, "tool_use"),
                      BlocksOfType(message.content.v, "text"),
                      JoinText(BlocksOfType(message.content.v, "text")))
    ELSE Ok(PyNone)

\* Ok(PyDict(message)), Ok(PyList(messages)), Ok(PyNone), or the exception raised.
_convert_message_content(message) ==
    IF message.content.ty = "str" THEN
        Ok(PyDict([role |-> message.role, content |-> message.content]))
    ELSE IF message.content.ty = "list" THEN
        ConvertBlocks(message.role, message.content.v,
                      BlocksOfType(message.content.v, "tool_result"),
                      BlocksOfType(message.content.v, "tool_use"),
                      BlocksOfType(message.content.v, "text"),
                      JoinText(BlocksOfType(message.content.v, "text")))
    ELSE Ok(PyNone)

RECURSIVE MessagesLoop(_, _)

\* Mutant: what a message is converted to is put before the messages so far.
Mut_MessagesStep(rest, messages, converted_message) ==
    IF Raised(converted_message) THEN converted_message
    ELSE IF converted_message.v.ty = "list" THEN
        MessagesLoop(rest, converted_message.v.v \o messages)
    ELSE IF converted_message.v.ty = "dict" THEN
        MessagesLoop(rest, <<converted_message.v.v>> \o messages)
    ELSE MessagesLoop(rest, messages)

\* The loop goes on with what _convert_message_content returned: a list
\* extends messages (an empty list is falsy and changes nothing), a dict is
\* appended, None is skipped.
MessagesStep(rest, messages, converted_message) ==
    IF Raised(converted_message) THEN converted_message
    ELSE IF converted_message.v.ty = "list" THEN
        MessagesLoop(rest, messages \o converted_message.v.v)
    ELSE IF converted_message.v.ty = "dict" THEN
        MessagesLoop(rest, Append(messages, converted_message.v.v))
    ELSE MessagesLoop(rest, messages)

\* Mutant: a message is converted whatever its role.
Mut_MessagesLoop(anthropic_messages, messages) ==
    IF anthropic_messages = <<>> THEN Ok(messages)
    ELSE MessagesStep(Tail(anthropic_messages), messages,
                      _convert_message_content(Head(anthropic_messages)))

\* The loop of _convert_messages_with_tools over the request's messages.
MessagesLoop(anthropic_messages, messages) ==
    IF anthropic_messages = <<>> THEN Ok(messages)
    ELSE IF Head(anthropic_messages).role \in {"user", "assistant"} THEN
        MessagesStep(Tail(anthropic_messages), messages,
                     _convert_message_content(Head(anthropic_messages)))
    ELSE MessagesLoop(Tail(anthropic_messages), messages)

\* Mutant: the system message is appended after the conversation messages.
Mut_convert_messages_with_tools(anthropic_request) ==
    LET r == MessagesLoop(Get(anthropic_request, "messages", <<>>), <<>>)
    IN  IF Raised(r) \/ "system" \notin DOMAIN anthropic_request THEN r
        ELSE Ok(Append(r.v, [role |-> "system",
                             content |-> anthropic_request.system]))

_convert_messages_with_tools(anthropic_request) ==
    MessagesLoop(
        Get(anthropic_request, "messages", <<>>),
        IF "system" \in DOMAIN anthropic_request
        THEN <<[role |-> "system", content |-> anthropic_request.system]>>
        ELSE <<>>)

\* d with d[key] = value added.
Put(d, key, value) == (key :> value) @@ d

\* Mutant: max_tokens is copied under its inbound name.
Mut_ConvertScalars(anthropic_request) ==
    (IF "model" \in DOMAIN anthropic_request
     THEN "model" :> anthropic_request.model ELSE EmptyDict)
    @@ (IF "max_tokens" \in DOMAIN anthropic_request
        THEN "max_tokens" :> anthropic_request.max_tokens ELSE EmptyDict)
    @@ (IF "temperature" \in DOMAIN anthropic_request
        THEN "temperature" :> anthropic_request.temperature ELSE EmptyDict)

\* The scalar fields RequestConverter.convert copies: model, max_tokens as
\* max_completion_tokens, temperature; each only if the request has it.
ConvertScalars(anthropic_request) ==
    (IF "model" \in DOMAIN anthropic_request
     THEN "model" :> anthropic_request.model ELSE EmptyDict)
    @@ (IF "max_tokens" \in DOMAIN anthropic_request
        THEN "max_completion_tokens" :> anthropic_request.max_tokens
        ELSE EmptyDict)
    @@ (IF "temperature" \in DOMAIN anthropic_request
        THEN "temperature" :> anthropic_request.temperature ELSE EmptyDict)

\* The tools field: set only if the request has tools.
ConvertTools(anthropic_request) ==
    IF "tools" \in DOMAIN anthropic_request
    THEN "tools" :> convert_anthropic_tools_to_openai(anthropic_request.tools)
    ELSE EmptyDict

\* The request with tool_choice and messages added, unless converting one of
\* them raised.
WithChoiceAndMessages(anthropic_request, openai_request, tool_choice, messages) ==
    IF Raised(tool_choice) THEN tool_choice
    ELSE IF Raised(messages) THEN messages
    ELSE Ok(Put(IF "tool_choice" \in DOMAIN anthropic_request
                THEN Put(openai_request, "tool_choice", tool_choice.v)
                ELSE openai_request,
                "messages", messages.v))

\* RequestConverter.convert: Ok(openai_request) or the exception raised.
RequestConverter_convert(anthropic_request) ==
    WithChoiceAndMessages(
        anthropic_request,
        ConvertScalars(anthropic_request) @@ ConvertTools(anthropic_request),
        IF "tool_choice" \in DOMAIN anthropic_request
        THEN convert_tool_choice_to_openai(anthropic_request.tool_choice)
        ELSE Ok(PyNone),
        _convert_messages_with_tools(anthropic_request))

-----------------------------------------------------------------------------
(* ResponseConverter                                                       *)

STOP_REASON_MAPPING ==
    [stop |-> "end_turn",
     length |-> "max_tokens",
     content_filter |-> "end_turn",
     function_call |-> "tool_use",
     tool_calls |-> "tool_use"]

\* Mutant: an unmapped finish_reason is passed through.
Mut_convert_stop_reason(openai_finish_reason) ==
    IF openai_finish_reason.ty = "str"
    THEN IF openai_finish_reason.v \in DOMAIN STOP_REASON_MAPPING
         THEN STOP_REASON_MAPPING[openai_finish_reason.v]
         ELSE openai_finish_reason.v
    ELSE "end_turn"

\* STOP_REASON_MAPPING.get(openai_finish_reason, "end_turn"); None is no key.
_convert_stop_reason(openai_finish_reason) ==
    IF openai_finish_reason.ty = "str"
       /\ openai_finish_reason.v \in DOMAIN STOP_REASON_MAPPING
    THEN STOP_REASON_MAPPING[openai_finish_reason.v]
    ELSE "end_turn"

\* bool(x) of None, a str or a list
Truthy(x) == x.ty \in {"str", "list"} /\ x.v # <<>>

TextBlock(text) == [type |-> "text", text |-> text]

\* Mutant: no default block is added to an empty content.
Mut_ContentOrDefault(content) == content

\* if not content: content.append(TextBlock(type="text", text=""))
ContentOrDefault(content) ==
    IF content = <<>> THEN <<TextBlock(<<>>)>> ELSE content

\* Mutant: the tool-use blocks are put before the text block.
Mut_ContentBlocks(text_blocks, tool_use_blocks) ==
    IF Raised(tool_use_blocks) THEN tool_use_blocks
    ELSE Ok(ContentOrDefault(tool_use_blocks.v \o text_blocks))

\* The text block, then the tool-use blocks, unless converting them raised.
ContentBlocks(text_blocks, tool_use_blocks) ==
    IF Raised(tool_use_blocks) THEN tool_use_blocks
    ELSE Ok(ContentOrDefault(text_blocks \o tool_use_blocks.v))

\* Ok(content blocks) or the exception raised by the tool converter.
_build_content_blocks(message) ==
    ContentBlocks(
        IF Truthy(Get(message, "content", PyNone))
        THEN <<TextBlock(message.content.v)>> ELSE <<>>,
        IF "tool_calls" \in DOMAIN message /\ Truthy(message.tool_calls)
        THEN convert_openai_tool_calls_to_anthropic(message.tool_calls.v)
        ELSE Ok(<<>>))

\* Mutant: the two counts are exchanged.
Mut_UsageOf(openai_response) ==
    [input_tokens |->
         Get(Get(openai_response, "usage", EmptyDict), "completion_tokens", 0),
     output_tokens |->
         Get(Get(openai_response, "usage", EmptyDict), "prompt_tokens", 0)]

\* Usage(input_tokens=openai_response.get("usage", {}).get("prompt_tokens", 0),
\*       output_tokens=... .get("completion_tokens", 0))
UsageOf(openai_response) ==
    [input_tokens |->
         Get(Get(openai_response, "usage", EmptyDict), "prompt_tokens", 0),
     output_tokens |->
         Get(Get(openai_response, "usage", EmptyDict), "completion_tokens", 0)]

\* "OpenAI API Error: "
ERROR_MARKER ==
    <<"O", "p", "e", "n", "A", "I", " ", "A", "P", "I", " ",
      "E", "r", "r", "o", "r", ":", " ">>

\* "Unknown error"
UNKNOWN_ERROR ==
    <<"U", "n", "k", "n", "o", "w", "n", " ", "e", "r", "r", "o", "r">>

MSG_ == <<"m", "s", "g", "_">>

\* Mutant: the exception carries the provider's message without the marker.
Mut_RaiseApiError(error) ==
    RaiseMsg("Exception", Get(error, "message", UNKNOWN_ERROR))

\* raise Exception(f"OpenAI API Error: {error_msg}")
RaiseApiError(error) ==
    RaiseMsg("Exception", ERROR_MARKER \o Get(error, "message", UNKNOWN_ERROR))

\* Mutant: a Message with a ToolUse block has the stop reason tool_use.
Mut_MessageOf(openai_response, choice, content, uuid_hex) ==
    IF Raised(content) THEN content
    ELSE Ok([id |-> MSG_ \o uuid_hex,
             type |-> "message",
             role |-> "assistant",
             content |-> content.v,
             model |-> Get(openai_response, "model", "unknown"),
             stop_reason |->
                 IF \E i \in 1..Len(content.v) : content.v[i].type = "tool_use"
                 THEN "tool_use"
                 ELSE _convert_stop_reason(
                          Get(choice, "finish_reason", PyStr("stop"))),
             stop_sequence |-> PyNone,
             usage |-> UsageOf(openai_response)])

\* The Message built from the first choice and its content blocks.
MessageOf(openai_response, choice, content, uuid_hex) ==
    IF Raised(content) THEN content
    ELSE Ok([id |-> MSG_ \o uuid_hex,
             type |-> "message",
             role |-> "assistant",
             content |-> content.v,
             model |-> Get(openai_response, "model", "unknown"),
             stop_reason |-> _convert_stop_reason(
                 Get(choice, "finish_reason", PyStr("stop"))),
             stop_sequence |-> PyNone,
             usage |-> UsageOf(openai_response)])

\* ResponseConverter.convert; uuid_hex is uuid.uuid4().hex[:8].upper().
\* Ok(Message), or Exception with its text.
\* Mutant: the last choice is taken.
Mut_ResponseConverter_convert(openai_response, uuid_hex) ==
    IF "error" \in DOMAIN openai_response THEN RaiseApiError(openai_response.error)
    ELSE MessageOf(openai_response,
                   openai_response.choices[Len(openai_response.choices)],
                   _build_content_blocks(
                       openai_response.choices[Len(openai_response.choices)].message),
                   uuid_hex)

ResponseConverter_convert(openai_response, uuid_hex) ==
    IF "error" \in DOMAIN openai_response THEN RaiseApiError(openai_response.error)
    ELSE MessageOf(openai_response, openai_response.choices[1],
                   _build_content_blocks(openai_response.choices[1].message),
                   uuid_hex)

-----------------------------------------------------------------------------
(* The stores of the converters: every item assignment, append and extend  *)
(* they execute, in order. The target of a store is an object the          *)
(* converter created itself, named by the variable bound to it, or an      *)
(* object of the argument, found at a path of keys and indexes from the    *)
(* argument. The argument after the call is the argument with the stores   *)
(* of the second kind applied.                                             *)

LocalStore(name) == [local |-> TRUE, name |-> name]
ArgumentStore(path, key, value) ==
    [local |-> FALSE, path |-> path, key |-> key, value |-> value]

StoreIf(condition, store) == IF condition THEN <<store>> ELSE <<>>
Times(n, store) == [i \in 1..n |-> store]

\* _convert_message_content on the message at path: tool_messages.append in
\* convert_anthropic_tool_results_to_openai and regular_messages.append, or
\* the stores into message_dict and tool_calls.append.
\* Mutant: the assistant message's content is stored into the inbound message.
Mut_ContentStores(message, path, tool_result_blocks, tool_use_blocks, text_content) ==
    IF tool_result_blocks # <<>> THEN
        Times(Len(tool_result_blocks), LocalStore("tool_messages"))
        \o StoreIf(NonBlank(text_content), LocalStore("regular_messages"))
    ELSE IF tool_use_blocks # <<>> THEN
        <<ArgumentStore(path, "content",
                        IF NonBlank(text_content) THEN PyStr(text_content) ELSE PyNone)>>
        \o Times(Len(tool_use_blocks), LocalStore("tool_calls"))
        \o <<LocalStore("message_dict")>>
    ELSE <<>>

ContentStores(message, path, tool_result_blocks, tool_use_blocks, text_content) ==
    IF tool_result_blocks # <<>> THEN
        Times(Len(tool_result_blocks), LocalStore("tool_messages"))
        \o StoreIf(NonBlank(text_content), LocalStore("regular_messages"))
    ELSE IF tool_use_blocks # <<>> THEN
        <<LocalStore("message_dict")>>
        \o Times(Len(tool_use_blocks), LocalStore("tool_calls"))
        \o <<LocalStore("message_dict")>>
    ELSE <<>>

\* if converted_message: a dict, or a list that is not empty
ConvertedTruthy(converted_message) ==
    /\ ~Raised(converted_message)
    /\ \/ converted_message.v.ty = "dict"
       \/ converted_message.v.ty = "list" /\ converted_message.v.v # <<>>

\* One round of the loop of _convert_messages_with_tools.
MessageStores(message, path) ==
    IF message.role \notin {"user", "assistant"} THEN <<>>
    ELSE (IF message.content.ty = "list"
          THEN ContentStores(message, path,
                             BlocksOfType(message.content.v, "tool_result"),
                             BlocksOfType(message.content.v, "tool_use"),
                             JoinText(BlocksOfType(message.content.v, "text")))
          ELSE <<>>)
         \o StoreIf(ConvertedTruthy(_convert_message_content(message)),
                    LocalStore("messages"))

MessagesStores(anthropic_messages) ==
    Concat([i \in 1..Len(anthropic_messages) |->
                MessageStores(anthropic_messages[i], <<"messages", i>>)])

\* RequestConverter.convert: the stores into openai_request, openai_tools.append
\* in convert_anthropic_tools_to_openai, and those of
\* _convert_messages_with_tools.
RequestConverterStores(anthropic_request) ==
    StoreIf("model" \in DOMAIN anthropic_request, LocalStore("openai_request"))
    \o StoreIf("max_tokens" \in DOMAIN anthropic_request, LocalStore("openai_request"))
    \o StoreIf("temperature" \in DOMAIN anthropic_request, LocalStore("openai_request"))
    \o (IF "tools" \in DOMAIN anthropic_request
        THEN Times(Len(anthropic_request.tools), LocalStore("openai_tools"))
             \o <<LocalStore("openai_request")>>
        ELSE <<>>)
    \o StoreIf("tool_choice" \in DOMAIN anthropic_request, LocalStore("openai_request"))
    \o StoreIf("system" \in DOMAIN anthropic_request, LocalStore("messages"))
    \o MessagesStores(Get(anthropic_request, "messages", <<>>))
    \o <<LocalStore("openai_request")>>

\* tool_use_blocks.append in convert_openai_tool_calls_to_anthropic, once for
\* each block built.
ToolCallStores(tool_use_blocks) ==
    IF Raised(tool_use_blocks) THEN <<>>
    ELSE Times(Len(tool_use_blocks.v), LocalStore("tool_use_blocks"))
         \o <<LocalStore("content")>>

\* ResponseConverter.convert: content.append and content.extend in
\* _build_content_blocks; none when the response holds an error.
BuildContentStores(has_text, has_tool_calls, tool_use_blocks) ==
    StoreIf(has_text, LocalStore("content"))
    \o (IF has_tool_calls THEN ToolCallStores(tool_use_blocks) ELSE <<>>)
    \o StoreIf(~has_text /\ ~Raised(tool_use_blocks) /\ tool_use_blocks.v = <<>>,
               LocalStore("content"))

HasToolCalls(message) == "tool_calls" \in DOMAIN message /\ Truthy(message.tool_calls)

ResponseConverterStores(openai_response) ==
    IF "error" \in DOMAIN openai_response THEN <<>>
    ELSE BuildContentStores(
             Truthy(Get(openai_response.choices[1].message, "content", PyNone)),
             HasToolCalls(openai_response.choices[1].message),
             IF HasToolCalls(openai_response.choices[1].message)
             THEN convert_openai_tool_calls_to_anthropic(
                      openai_response.choices[1].message.tool_calls.v)
             ELSE Ok(<<>>))

RECURSIVE StoreAt(_, _, _, _)
\* object[key] = value for the object at path from argument.
StoreAt(argument, path, key, value) ==
    IF path = <<>> THEN Put(argument, key, value)
    ELSE [argument EXCEPT ![Head(path)] = StoreAt(@, Tail(path), key, value)]

RECURSIVE ArgumentAfter(_, _)
\* The argument as the stores leave it.
ArgumentAfter(argument, stores) ==
    IF stores = <<>> THEN argument
    ELSE IF Head(stores).local THEN ArgumentAfter(argument, Tail(stores))
    ELSE ArgumentAfter(StoreAt(argument, Head(stores).path, Head(stores).key,
                               Head(stores).value),
                       Tail(stores))

-----------------------------------------------------------------------------
(* OpenAIClientWrapper                                                     *)

\* create_chat_completion: what the call to the provider did is the outcome,
\* either [kind |-> "response", response |-> r] (response.model_dump() is r)
\* or [kind |-> "exception", text |-> str(e)] with code |-> e.code when e has one.
\* Mutant: the exception's code is not looked up.
Mut_create_chat_completion(request, outcome) ==
    IF outcome.kind = "response" THEN outcome.response
    ELSE [error |-> [message |-> outcome.text,
                     type |-> "api_error",
                     code |-> "unknown"]]

create_chat_completion(request, outcome) ==
    IF outcome.kind = "response" THEN outcome.response
    ELSE [error |-> [message |-> outcome.text,
                     type |-> "api_error",
                     code |-> Get(outcome, "code", "unknown")]]

-----------------------------------------------------------------------------
(* ConfigManager, and the construction of the client wrapper and the       *)
(* bridge. The process environment, as it is once load_dotenv has run, is  *)
(* env: a record of the two variables read, PyNone when a variable is not  *)
(* set. A configuration manager, a wrapper and a bridge are the records of *)
(* their attributes.                                                       *)

\* An object without __bool__ or __len__, such as an httpx client
PyObject(class) == [ty |-> "object", class |-> class]

\* bool(x) of None, a str, a list or an object
TruthyValue(x) == x.ty = "object" \/ Truthy(x)

\* os.getenv(name)
getenv(env, name) == env[name]

ConfigManager_init(openai_api_key, openai_base_url, httpx_client) ==
    [_custom_openai_api_key |-> openai_api_key,
     _custom_openai_base_url |-> openai_base_url,
     _httpx_client |-> httpx_client]

\* if not api_key: raise ValueError(...); return api_key
RequiredKey(api_key) ==
    IF ~TruthyValue(api_key) THEN Raise("ValueError") ELSE Ok(api_key)

\* Mutant: the environment's key is preferred to the one passed explicitly.
Mut_openai_api_key(self, env) ==
    IF TruthyValue(getenv(env, "OPENAI_API_KEY"))
    THEN Ok(getenv(env, "OPENAI_API_KEY"))
    ELSE RequiredKey(self._custom_openai_api_key)

\* The property ConfigManager.openai_api_key
openai_api_key(self, env) ==
    IF TruthyValue(self._custom_openai_api_key)
    THEN Ok(self._custom_openai_api_key)
    ELSE RequiredKey(getenv(env, "OPENAI_API_KEY"))

\* The property ConfigManager.openai_base_url
openai_base_url(self, env) ==
    IF TruthyValue(self._custom_openai_base_url)
    THEN self._custom_openai_base_url
    ELSE getenv(env, "OPENAI_BASE_URL")

\* The property ConfigManager.httpx_client
httpx_client(self) == self._httpx_client

\* client_kwargs: the api key, and the base URL if one is specified. The
\* configuration's httpx client is not read.
ClientKwargs(api_key, base_url) ==
    ("api_key" :> api_key)
    @@ (IF TruthyValue(base_url) THEN "base_url" :> base_url ELSE EmptyDict)

\* The wrapper built, unless reading the key raised.
WrapperOf(config_manager, api_key, base_url) ==
    IF Raised(api_key) THEN api_key
    ELSE Ok([config |-> config_manager,
             client |-> [class |-> "openai.OpenAI",
                         kwargs |-> ClientKwargs(api_key.v, base_url)]])

OpenAIClientWrapper_init(config_manager, env) ==
    WrapperOf(config_manager,
              openai_api_key(config_manager, env),
              openai_base_url(config_manager, env))

\* ToolConverter defines no __init__: an instance has no attributes.
ToolConverter_init == EmptyDict
RequestConverter_init == [tool_converter |-> ToolConverter_init]
ResponseConverter_init == [tool_converter |-> ToolConverter_init]

\* self.config of a bridge
ConfigOf(config_manager, api_key, base_url, client) ==
    IF /\ TruthyValue(api_key) \/ TruthyValue(base_url) \/ TruthyValue(client)
       /\ config_manager = PyNone
    THEN ConfigManager_init(api_key, base_url, client)
    ELSE IF config_manager # PyNone THEN config_manager
         ELSE ConfigManager_init(PyNone, PyNone, PyNone)

\* The bridge built, unless building the wrapper raised.
BridgeOf(config, wrapper) ==
    IF Raised(wrapper) THEN wrapper
    ELSE Ok([config |-> config,
             openai_client |-> wrapper.v,
             request_converter |-> RequestConverter_init,
             response_converter |-> ResponseConverter_init])

BridgeWith(config, env) == BridgeOf(config, OpenAIClientWrapper_init(config, env))

AnthropicOpenAIBridge_init(args, env) ==
    BridgeWith(ConfigOf(args.config_manager, args.openai_api_key,
                        args.openai_base_url, args.httpx_client),
               env)

-----------------------------------------------------------------------------
(* The inputs the callers and the provider draw from.                      *)

IdParts == {CALL_, TOOLU_, <<"a">>, <<"c", "a", "l", "l">>}
Ids == {Concat(ps) : ps \in SeqsUpTo(IdParts, MaxIdParts)}

\* Ids a provider gives its tool calls: with and without the "call_" prefix.
ProviderIds == {CALL_ \o <<"a">>, <<"a">>}
\* Ids a caller gives its tool_use blocks.
ToolUseIds == {TOOLU_ \o <<"a">>, <<"a">>}

Texts == SeqsUpTo({" ", "a"}, MaxTextLen)

ArgLexemes == {<<"{">>, <<"}">>, <<QUOTE, "k", QUOTE>>, <<":">>, <<"1">>, <<" ">>}
ArgStrings == {Concat(ps) : ps \in SeqsUpTo(ArgLexemes, MaxArgParts)}

\* {"k": 1}, {}, a truncated object, a number
ARGS_OBJECT == <<"{", QUOTE, "k", QUOTE, ":", " ", "1", "}">>
FewArgStrings == {ARGS_OBJECT, <<"{", "}">>, <<"{", QUOTE, "k">>, <<"1">>}

ToolNames == {"get_weather", "calculate"}

INPUT_K1 == PyDict(<< <<(<<"k">>), PyInt(1)>> >>)

ToolCall(call_id, call_type, fn_name, fn_arguments) ==
    [id |-> call_id, type |-> call_type,
     function |-> [name |-> fn_name, arguments |-> fn_arguments]]

\* Tool calls of the provider's schema: arguments is a string.
ToolCalls ==
    {ToolCall(i, t, "get_weather", PyStr(a)) :
        i \in ProviderIds, t \in {"function", "custom"}, a \in FewArgStrings}

ToolCallLists ==
    SeqsUpTo(ToolCalls, MaxCalls)
    \cup {<<ToolCall(CALL_ \o <<"a">>, "function", "calculate", PyStr(a))>> :
            a \in ArgStrings}

\* Tool calls of any shape the signature (Dict[str, Any]) admits.
AnyShapeToolCalls ==
    {ToolCall(i, t, "get_weather", a) :
        i \in ProviderIds, t \in {"function", "custom"},
        a \in {PyStr(ARGS_OBJECT), PyStr(<<"{">>), PyNone, PyDict(<<>>)}}

AnyShapeToolCallLists == SeqsUpTo(AnyShapeToolCalls, MaxCalls)

ToolDefs ==
    {[name |-> "get_weather", description |-> "Get the weather",
      input_schema |-> "schema_location"],
     [name |-> "calculate", description |-> "Evaluate an expression",
      input_schema |-> "schema_expression"]}
ToolDefLists == SeqsUpTo(ToolDefs, MaxTools)

\* tool_choice of the inbound schema
ToolChoices ==
    {PyStr(c) : c \in {"auto", "any", "none"}}
    \cup {PyDict([type |-> "tool", name |-> n]) : n \in ToolNames}
    \cup {PyDict([type |-> t]) : t \in {"auto", "any"}}

\* tool_choice of any shape
AnyShapeToolChoices ==
    ToolChoices
    \cup {PyDict([type |-> "tool"]), PyDict([name |-> "get_weather"]), PyNone}

TextBlocks == {[type |-> "text", text |-> t] : t \in {<<"a">>, <<" ">>}}
ToolUseBlocks ==
    {[type |-> "tool_use", id |-> i, name |-> "get_weather", input |-> INPUT_K1] :
        i \in ToolUseIds}
ToolResultBlocks ==
    {[type |-> "tool_result", tool_use_id |-> i, content |-> PyStr(<<"a">>)] :
        i \in ToolUseIds}
    \cup {[type |-> "tool_result", tool_use_id |-> TOOLU_ \o <<"a">>,
           name |-> "get_weather", content |-> PyStr(<<"a">>)]}
Blocks == TextBlocks \cup ToolUseBlocks \cup ToolResultBlocks

\* Dicts that are no block of the inbound schema: another type, and no type.
OtherDicts == {[type |-> "image", source |-> "data"], [text |-> <<"a">>]}

\* Messages given to _convert_message_content.
Contents ==
    {PyStr(t) : t \in Texts} \cup {PyList(l) : l \in SeqsUpTo(Blocks, MaxBlocks)}
Messages == {[role |-> r, content |-> c] : r \in {"user", "assistant"}, c \in Contents}

\* The messages a request is made of: one for each branch of the conversion.
RequestMessages ==
    {[role |-> "user", content |-> PyStr(<<"a">>)],
     [role |-> "assistant", content |-> PyStr(<<>>)],
     [role |-> "system", content |-> PyStr(<<"a">>)],
     [role |-> "assistant", content |-> PyList(<<>>)],
     [role |-> "assistant",
      content |-> PyList(<<[type |-> "text", text |-> <<"a">>],
                           [type |-> "tool_use", id |-> TOOLU_ \o <<"a">>,
                            name |-> "get_weather", input |-> INPUT_K1]>>)],
     [role |-> "user",
      content |-> PyList(<<[type |-> "text", text |-> <<"a">>],
                           [type |-> "tool_result", tool_use_id |-> TOOLU_ \o <<"a">>,
                            content |-> PyStr(<<"a">>)],
                           [type |-> "tool_result", tool_use_id |-> <<"a">>,
                            content |-> PyStr(<<"a">>)]>>)]}
MessageLists == SeqsUpTo(RequestMessages, MaxMsgs)

\* The dicts that hold key with one of the values, or do not hold it.
Opt(key, values) == {EmptyDict} \cup {key :> v : v \in values}

Models == {"claude-3-sonnet", "gpt-4o"}
SystemPrompts == {PyStr(<<"a">>), PyStr(<<>>)}
USER_A == [role |-> "user", content |-> PyStr(<<"a">>)]

\* Requests that vary the fields beside the messages.
FieldRequests ==
    {m @@ mt @@ t @@ tl @@ tc @@ ("messages" :> <<USER_A>>) :
        m \in Opt("model", Models),
        mt \in Opt("max_tokens", {1, 1024}),
        t \in Opt("temperature", {0}),
        tl \in Opt("tools", ToolDefLists),
        tc \in Opt("tool_choice", ToolChoices)}

\* Requests that vary the system prompt and the messages.
MessageRequests ==
    {("model" :> "claude-3-sonnet") @@ ("max_tokens" :> 1024) @@ sp @@ ml :
        sp \in Opt("system", SystemPrompts),
        ml \in Opt("messages", MessageLists)}

Requests == FieldRequests \cup MessageRequests

\* Error objects of an error envelope, with and without a message.
ErrorTexts == {<<"k", "e", "y">>, <<>>}
ErrorObjects ==
    {[type |-> "api_error", code |-> "unknown"] @@ m : m \in Opt("message", ErrorTexts)}

ProviderContents == {PyNone, PyStr(<<>>), PyStr(<<"a">>)}

ProviderMessage(content, tool_calls) ==
    ("role" :> "assistant") @@ content @@ tool_calls

Choice(message, finish_reason) == ("message" :> message) @@ finish_reason

\* Completions that vary the content and the tool calls.
ContentResponses ==
    {[choices |-> <<Choice(ProviderMessage(c, tc), fr)>>, model |-> "gpt-4o"] :
        c \in Opt("content", ProviderContents),
        tc \in Opt("tool_calls",
                   {PyNone} \cup {PyList(l) : l \in SeqsUpTo(ToolCalls, MaxCalls)}),
        fr \in Opt("finish_reason", {PyStr("tool_calls")})}

FinishReasons ==
    {PyStr(f) : f \in {"stop", "length", "content_filter", "function_call",
                         "tool_calls", "end_turn", ""}}
    \cup {PyNone}

Usages ==
    {p @@ c : p \in Opt("prompt_tokens", {10}), c \in Opt("completion_tokens", {5})}

CALL_A == ToolCall(CALL_ \o <<"a">>, "function", "get_weather", PyStr(ARGS_OBJECT))
OTHER_CHOICE ==
    Choice(ProviderMessage("content" :> PyStr(<<"a", "a">>), EmptyDict),
           "finish_reason" :> PyStr("length"))

\* Completions that vary the finish reason, the usage, the model and the
\* choices after the first.
FinishResponses ==
    {("choices" :> (<<Choice(ProviderMessage(c, tc), fr)>> \o more)) @@ u @@ m :
        c \in Opt("content", {PyStr(<<"a">>)}),
        tc \in Opt("tool_calls", {PyList(<<CALL_A>>)}),
        fr \in Opt("finish_reason", FinishReasons),
        more \in {<<>>, <<OTHER_CHOICE>>},
        u \in Opt("usage", Usages),
        m \in Opt("model", {"gpt-4o"})}

ErrorResponses ==
    {("error" :> e) @@ ch :
        e \in ErrorObjects,
        ch \in Opt("choices", {<<Choice(ProviderMessage("content" :> PyStr(<<"a">>),
                                                        EmptyDict), EmptyDict)>>})}

Responses == ContentResponses \cup FinishResponses \cup ErrorResponses

\* Completions with tool calls of any shape.
AnyShapeResponses ==
    {[choices |-> <<Choice(ProviderMessage(EmptyDict, "tool_calls" :> PyList(l)),
                           EmptyDict)>>] :
        l \in AnyShapeToolCallLists}

\* uuid.uuid4().hex[:8].upper()
UuidHex ==
    {<<"0", "0", "0", "0", "0", "0", "0", "A">>,
     <<"F", "F", "F", "F", "F", "F", "F", "F">>}

\* What send_message is called with on a fresh turn.
BridgeRequests ==
    {[model |-> "claude-3-sonnet", max_tokens |-> 1024, messages |-> <<USER_A>>],
     [model |-> "claude-3-sonnet", max_tokens |-> 1024, messages |-> <<USER_A>>,
      tools |-> <<[name |-> "get_weather", description |-> "Get the weather",
                   input_schema |-> "schema_location"]>>,
      tool_choice |-> PyStr("auto")]}

BridgeToolCalls ==
    {ToolCall(i, t, "get_weather", PyStr(ARGS_OBJECT)) :
        i \in ProviderIds, t \in {"function", "custom"}}

\* What the provider answers on a fresh turn.
BridgeResponses ==
    {[choices |-> <<Choice(ProviderMessage(c, tc),
                           "finish_reason" :> PyStr("tool_calls"))>>,
      model |-> "gpt-4o",
      usage |-> [prompt_tokens |-> 10, completion_tokens |-> 5]] :
        c \in Opt("content", {PyNone, PyStr(<<"a">>)}),
        tc \in Opt("tool_calls",
                   {PyList(l) : l \in SeqsUpTo(BridgeToolCalls, MaxCalls)})}

\* What the provider answers once it has the tool results.
FINAL_RESPONSE ==
    [choices |-> <<Choice(ProviderMessage("content" :> PyStr(<<"a">>), EmptyDict),
                          "finish_reason" :> PyStr("stop"))>>,
     model |-> "gpt-4o",
     usage |-> [prompt_tokens |-> 10, completion_tokens |-> 5]]

ProviderExceptions ==
    {[kind |-> "exception", text |-> <<"k", "e", "y">>, code |-> "invalid_api_key"],
     [kind |-> "exception", text |-> <<"d", "o", "w", "n">>]}

ProviderOutcomes(t) ==
    {[kind |-> "response", response |-> r] :
        r \in IF t = "fresh" THEN BridgeResponses ELSE {FINAL_RESPONSE}}
    \cup ProviderExceptions

AllProviderOutcomes == ProviderOutcomes("fresh") \cup ProviderOutcomes("followup")

\* The tool_result blocks of a caller that ran every tool the model asked for.
ToolResultsFor(tool_uses) ==
    [i \in 1..Len(tool_uses) |->
        [type |-> "tool_result",
         tool_use_id |-> tool_uses[i].id,
         content |-> PyStr(<<"a">>)]]

\* The caller's next request: the history, the assistant's content blocks and
\* one tool_result for each tool_use.
FollowUpRequest(request, message) ==
    [request EXCEPT !.messages =
        @ \o <<[role |-> "assistant", content |-> PyList(message.content)],
               [role |-> "user",
                content |-> PyList(ToolResultsFor(
                    BlocksOfType(message.content, "tool_use")))]>>]

\* Keys, base URLs and transports a configuration is built from.
CUSTOM_KEY == <<"c">>
ENV_KEY == <<"e">>
CUSTOM_URL == <<"u">>
ENV_URL == <<"v">>
HTTPX_CLIENT == PyObject("httpx.Client")

ConfigManagers ==
    {ConfigManager_init(k, u, h) :
        k \in {PyNone, PyStr(<<>>), PyStr(CUSTOM_KEY)},
        u \in {PyNone, PyStr(CUSTOM_URL)},
        h \in {PyNone, HTTPX_CLIENT}}

Environments ==
    [OPENAI_API_KEY : {PyNone, PyStr(<<>>), PyStr(ENV_KEY)},
     OPENAI_BASE_URL : {PyNone, PyStr(ENV_URL)}]

\* What a bridge is constructed with: nothing, a key, or a configuration
\* manager holding a key, a base URL and a transport.
BridgeArgs ==
    {[config_manager |-> PyNone, openai_api_key |-> k,
      openai_base_url |-> PyNone, httpx_client |-> PyNone] :
        k \in {PyNone, PyStr(CUSTOM_KEY)}}
    \cup {[config_manager |->
               ConfigManager_init(PyStr(CUSTOM_KEY), PyStr(CUSTOM_URL), HTTPX_CLIENT),
           openai_api_key |-> PyNone,
           openai_base_url |-> PyNone, httpx_client |-> PyNone]}

BridgeEnvironments ==
    [OPENAI_API_KEY : {PyNone, PyStr(ENV_KEY)}, OPENAI_BASE_URL : {PyNone}]

\* A request whose conversion raises: its tool_choice names no tool.
UNCONVERTIBLE_REQUEST ==
    [model |-> "claude-3-sonnet", max_tokens |-> 1024, messages |-> <<USER_A>>,
     tools |-> <<[name |-> "get_weather", description |-> "Get the weather",
                  input_schema |-> "schema_location"]>>,
     tool_choice |-> PyDict([type |-> "tool"])]

AnyShapeBridgeRequests == BridgeRequests \cup {UNCONVERTIBLE_REQUEST}

-----------------------------------------------------------------------------
(* The state machine: direct calls of the converters' methods, and the     *)
(* steps of AnthropicOpenAIBridge.send_message.                            *)

NoCall == [op |-> "none"]
Unset == [ty |-> "unset"]
NoBridge == [op |-> "none"]
NoThreads == <<>>

Init ==
    /\ call = NoCall
    /\ pc = "idle"
    /\ sm_request = Unset
    /\ sm_openai_request = Unset
    /\ sm_openai_response = Unset
    /\ sm_result = Unset
    /\ turn = "fresh"
    /\ sm_calls = <<>>
    /\ bridge = NoBridge
    /\ threads = NoThreads

\* No call is running and no bridge is held: the converters are used on their
\* own.
Idle == pc = "idle" /\ call = NoCall /\ bridge = NoBridge

\* A direct call of a converter method.
Direct(method, argument, result) ==
    /\ call' = [op |-> method, arg |-> argument, ret |-> result]
    /\ UNCHANGED <<pc, sm_request, sm_openai_request, sm_openai_response,
                   sm_result, turn, sm_calls, bridge, threads>>

\* The caller has its result (or its exception), drops the bridge it held and
\* is idle again.
Done ==
    /\ \/ call # NoCall
       \/ pc \in {"returned", "raised"}
       \/ bridge # NoBridge /\ pc = "idle"
    /\ call' = NoCall
    /\ pc' = "idle"
    /\ sm_request' = Unset
    /\ sm_openai_request' = Unset
    /\ sm_openai_response' = Unset
    /\ sm_result' = Unset
    /\ turn' = "fresh"
    /\ sm_calls' = <<>>
    /\ bridge' = NoBridge
    /\ UNCHANGED threads

Call_convert_tool_call_id ==
    /\ Idle
    /\ \E id \in Ids :
           Direct("_convert_tool_call_id", id, _convert_tool_call_id(id))

Call_convert_tool_use_id_to_call_id ==
    /\ Idle
    /\ \E id \in Ids :
           Direct("_convert_tool_use_id_to_call_id", id,
               _convert_tool_use_id_to_call_id(id))

Call_convert_anthropic_tools_to_openai ==
    /\ Idle
    /\ \E tools \in ToolDefLists :
           Direct("convert_anthropic_tools_to_openai", tools,
               convert_anthropic_tools_to_openai(tools))

CallToolCalls(lists) ==
    /\ Idle
    /\ \E tool_calls \in lists :
           Direct("convert_openai_tool_calls_to_anthropic", tool_calls,
               convert_openai_tool_calls_to_anthropic(tool_calls))

CallToolResults(contents) ==
    /\ Idle
    /\ \E content \in contents :
           Direct("convert_anthropic_tool_results_to_openai", content,
               convert_anthropic_tool_results_to_openai(content))

CallToolChoice(choices) ==
    /\ Idle
    /\ \E tool_choice \in choices :
           Direct("convert_tool_choice_to_openai", tool_choice,
               convert_tool_choice_to_openai(tool_choice))

Call_convert_message_content ==
    /\ Idle
    /\ \E message \in Messages :
           Direct("_convert_message_content", message,
               _convert_message_content(message))

\* A direct call of a converter: after is the argument as the caller finds
\* it once the call is over.
DirectKeeping(method, argument, result, after) ==
    /\ call' = [op |-> method, arg |-> argument, ret |-> result, after |-> after]
    /\ UNCHANGED <<pc, sm_request, sm_openai_request, sm_openai_response,
                   sm_result, turn, sm_calls, bridge, threads>>

CallRequestConverter(requests) ==
    /\ Idle
    /\ \E request \in requests :
           DirectKeeping("RequestConverter.convert", request,
               RequestConverter_convert(request),
               ArgumentAfter(request, RequestConverterStores(request)))

CallResponseConverter(responses) ==
    /\ Idle
    /\ \E response \in responses, uuid_hex \in UuidHex :
           DirectKeeping("ResponseConverter.convert", response,
               ResponseConverter_convert(response, uuid_hex),
               ArgumentAfter(response, ResponseConverterStores(response)))

\* A call made by send_message, as a mock of the callee records it.
CallRecord(callee, argument) == [callee |-> callee, arg |-> argument]

\* A bridge has been constructed.
Built == bridge # NoBridge /\ ~Raised(bridge.ret)

\* bridge = AnthropicOpenAIBridge(...), in some environment.
Construct ==
    /\ Idle
    /\ \E args \in BridgeArgs, env \in BridgeEnvironments :
        bridge' = [op |-> "AnthropicOpenAIBridge", arg |-> args, env |-> env,
                   ret |-> AnthropicOpenAIBridge_init(args, env)]
    /\ UNCHANGED <<call, pc, sm_request, sm_openai_request, sm_openai_response,
                   sm_result, turn, sm_calls, threads>>

\* Mutant: a request whose conversion raised is dispatched as it is.
Mut_RequestConverted(request, t, r) ==
    /\ call' = NoCall
    /\ sm_request' = request
    /\ turn' = t
    /\ sm_openai_response' = IF t = "followup" THEN sm_openai_response ELSE Unset
    /\ sm_calls' = <<CallRecord("request_converter.convert", request)>>
    /\ pc' = "request_converted"
    /\ sm_openai_request' = IF Raised(r) THEN request ELSE r.v
    /\ sm_result' = Unset
    /\ UNCHANGED <<bridge, threads>>

\* The first statement has run on request and r is what it returned or raised:
\* an exception leaves send_message, a value is bound to openai_request.
RequestConverted(request, t, r) ==
    /\ call' = NoCall
    /\ sm_request' = request
    /\ turn' = t
    /\ sm_openai_response' = IF t = "followup" THEN sm_openai_response ELSE Unset
    /\ sm_calls' = <<CallRecord("request_converter.convert", request)>>
    /\ IF Raised(r)
       THEN /\ pc' = "raised"
            /\ sm_openai_request' = Unset
            /\ sm_result' = r
       ELSE /\ pc' = "request_converted"
            /\ sm_openai_request' = r.v
            /\ sm_result' = Unset
    /\ UNCHANGED <<bridge, threads>>

\* send_message, first statement: request_converter.convert(anthropic_request).
SendMessage(request, t) ==
    RequestConverted(request, t, RequestConverter_convert(request))

\* bridge.send_message(request) on a bridge that was constructed.
SendAny(requests) ==
    /\ pc = "idle"
    /\ call = NoCall
    /\ Built
    /\ \E request \in requests : SendMessage(request, "fresh")

SendFresh == SendAny(BridgeRequests)

\* The caller answers the tool calls of the message it was returned.
SendFollowUp ==
    /\ pc = "returned"
    /\ turn = "fresh"
    /\ BlocksOfType(sm_result.v.content, "tool_use") # <<>>
    /\ SendMessage(FollowUpRequest(sm_request, sm_result.v), "followup")

\* send_message, second statement: openai_client.create_chat_completion.
Dispatch ==
    /\ pc = "request_converted"
    /\ \E outcome \in ProviderOutcomes(turn) :
        sm_openai_response' = create_chat_completion(sm_openai_request, outcome)
    /\ sm_calls' = Append(sm_calls,
                          CallRecord("openai_client.create_chat_completion",
                                     sm_openai_request))
    /\ pc' = "dispatched"
    /\ UNCHANGED <<call, sm_request, sm_openai_request, sm_result, turn,
                   bridge, threads>>

\* send_message, third statement: response_converter.convert, and the return.
ConvertResponse ==
    /\ pc = "dispatched"
    /\ \E uuid_hex \in UuidHex :
        sm_result' = ResponseConverter_convert(sm_openai_response, uuid_hex)
    /\ sm_calls' = Append(sm_calls,
                          CallRecord("response_converter.convert",
                                     sm_openai_response))
    /\ pc' = IF Raised(sm_result') THEN "raised" ELSE "returned"
    /\ UNCHANGED <<call, sm_request, sm_openai_request, sm_openai_response, turn,
                   bridge, threads>>

Call_convert_openai_tool_calls_to_anthropic == CallToolCalls(ToolCallLists)

\* config_manager.openai_api_key, read in some environment
Call_openai_api_key ==
    /\ Idle
    /\ \E self \in ConfigManagers, env \in Environments :
        Direct("ConfigManager.openai_api_key",
               [self |-> self, env |-> env],
               openai_api_key(self, env))

\* openai_client.create_chat_completion(request), the provider's call ending
\* in some outcome
Call_create_chat_completion ==
    /\ Idle
    /\ \E request \in BridgeRequests, outcome \in AllProviderOutcomes :
        Direct("create_chat_completion",
               [request |-> RequestConverter_convert(request).v,
                outcome |-> outcome],
               create_chat_completion(RequestConverter_convert(request).v,
                                      outcome))

\* OpenAIClientWrapper(config_manager), in some environment
Call_OpenAIClientWrapper_init ==
    /\ Idle
    /\ \E config_manager \in ConfigManagers, env \in Environments :
        Direct("OpenAIClientWrapper",
               [config_manager |-> config_manager, env |-> env],
               OpenAIClientWrapper_init(config_manager, env))

Call_convert_anthropic_tool_results_to_openai ==
    CallToolResults(SeqsUpTo(Blocks \cup OtherDicts, MaxBlocks))
Call_convert_tool_choice_to_openai == CallToolChoice(ToolChoices)
Call_RequestConverter_convert == CallRequestConverter(Requests)
Call_ResponseConverter_convert == CallResponseConverter(Responses)

Next ==
    \/ Call_convert_tool_call_id
    \/ Call_convert_tool_use_id_to_call_id
    \/ Call_convert_anthropic_tools_to_openai
    \/ Call_convert_openai_tool_calls_to_anthropic
    \/ Call_convert_anthropic_tool_results_to_openai
    \/ Call_convert_tool_choice_to_openai
    \/ Call_convert_message_content
    \/ Call_RequestConverter_convert
    \/ Call_ResponseConverter_convert
    \/ Call_create_chat_completion
    \/ Call_openai_api_key
    \/ Call_OpenAIClientWrapper_init
    \/ Construct
    \/ SendFresh
    \/ SendFollowUp
    \/ Dispatch
    \/ ConvertResponse
    \/ Done

Spec == Init /\ [][Next]_vars

\* The same calls on arguments of any shape the signatures admit, beyond the
\* inbound and the provider's schema.
AnyShape_convert_openai_tool_calls_to_anthropic ==
    CallToolCalls(AnyShapeToolCallLists)
AnyShape_convert_tool_choice_to_openai == CallToolChoice(AnyShapeToolChoices)
AnyShape_ResponseConverter_convert == CallResponseConverter(AnyShapeResponses)

AnyShape_send_message == SendAny(AnyShapeBridgeRequests)

NextAnyShape ==
    \/ AnyShape_convert_openai_tool_calls_to_anthropic
    \/ AnyShape_convert_tool_choice_to_openai
    \/ AnyShape_ResponseConverter_convert
    \/ Construct
    \/ AnyShape_send_message
    \/ SendFollowUp
    \/ Dispatch
    \/ ConvertResponse
    \/ Done

SpecAnyShape == Init /\ [][NextAnyShape]_vars

-----------------------------------------------------------------------------
(* Concurrent calls on one bridge. Each thread runs one call: send_message *)
(* on the bridge, or convert on one of the bridge's two converters. The    *)
(* locals of a call belong to its thread; the converter instances, held by *)
(* the bridge, are shared. A call of a converter's method is one step: it  *)
(* is given the attributes of the instance and gives back what the method  *)
(* returned or raised and the attributes it left.                          *)

\* Mutant: the converter keeps the first request it is given and converts that
\* one from then on.
Mut_RequestConvertCall(self, anthropic_request) ==
    [ret |-> RequestConverter_convert(Get(self, "request", anthropic_request)),
     self |-> Put(self, "request", Get(self, "request", anthropic_request))]

\* RequestConverter.convert on an instance: no statement assigns to self.
RequestConvertCall(self, anthropic_request) ==
    [ret |-> RequestConverter_convert(anthropic_request), self |-> self]

\* ResponseConverter.convert on an instance: no statement assigns to self.
ResponseConvertCall(self, openai_response, uuid_hex) ==
    [ret |-> ResponseConverter_convert(openai_response, uuid_hex), self |-> self]

TOOL_RESPONSE ==
    [choices |-> <<Choice(ProviderMessage("content" :> PyNone,
                                          "tool_calls" :> PyList(<<CALL_A>>)),
                          "finish_reason" :> PyStr("tool_calls"))>>,
     model |-> "gpt-4o",
     usage |-> [prompt_tokens |-> 10, completion_tokens |-> 5]]

ThreadResponses == {FINAL_RESPONSE, TOOL_RESPONSE}

ThreadOutcomes ==
    {[kind |-> "response", response |-> r] : r \in ThreadResponses}
    \cup {[kind |-> "exception", text |-> <<"d", "o", "w", "n">>]}

ThreadStart ==
    [pc |-> "start", op |-> "none", request |-> Unset, openai_request |-> Unset,
     outcome |-> Unset, openai_response |-> Unset, result |-> Unset]

\* The bridges the threads may share: every one that can be constructed.
SharedBridges ==
    {b \in {[op |-> "AnthropicOpenAIBridge", arg |-> args, env |-> env,
             ret |-> AnthropicOpenAIBridge_init(args, env)] :
                args \in BridgeArgs, env \in BridgeEnvironments} :
        ~Raised(b.ret)}

InitConcurrent ==
    /\ call = NoCall
    /\ pc = "idle"
    /\ sm_request = Unset
    /\ sm_openai_request = Unset
    /\ sm_openai_response = Unset
    /\ sm_result = Unset
    /\ turn = "fresh"
    /\ sm_calls = <<>>
    /\ bridge \in SharedBridges
    /\ threads = [t \in 1..MaxThreads |-> ThreadStart]

\* Thread t has called request_converter.convert(request), as its own call or
\* as the first statement of send_message; c is what the call did.
ThreadRequestConverted(t, op, request, c) ==
    /\ threads' = [threads EXCEPT ![t] =
          [@ EXCEPT !.op = op,
                    !.request = request,
                    !.pc = IF Raised(c.ret) THEN "raised"
                           ELSE IF op = "send_message" THEN "request_converted"
                           ELSE "returned",
                    !.openai_request = IF Raised(c.ret) \/ op # "send_message"
                                       THEN Unset ELSE c.ret.v,
                    !.result = IF Raised(c.ret) \/ op # "send_message"
                               THEN c.ret ELSE Unset]]
    /\ bridge' = [bridge EXCEPT !.ret.v.request_converter = c.self]

\* Thread t has called response_converter.convert(response), as its own call or
\* as the third statement of send_message; c is what the call did.
ThreadResponseConverted(t, op, response, c) ==
    /\ threads' = [threads EXCEPT ![t] =
          [@ EXCEPT !.op = op,
                    !.openai_response = response,
                    !.pc = IF Raised(c.ret) THEN "raised" ELSE "returned",
                    !.result = c.ret]]
    /\ bridge' = [bridge EXCEPT !.ret.v.response_converter = c.self]

SequentialVars ==
    <<call, pc, sm_request, sm_openai_request, sm_openai_response, sm_result,
      turn, sm_calls>>

\* A thread calls bridge.request_converter.convert(request).
ThreadConvertRequest ==
    /\ \E t \in 1..MaxThreads, request \in BridgeRequests :
        /\ threads[t].pc = "start"
        /\ ThreadRequestConverted(
               t, "request_converter.convert", request,
               RequestConvertCall(bridge.ret.v.request_converter, request))
    /\ UNCHANGED SequentialVars

\* A thread calls bridge.response_converter.convert(response).
ThreadConvertResponse ==
    /\ \E t \in 1..MaxThreads, response \in ThreadResponses, uuid_hex \in UuidHex :
        /\ threads[t].pc = "start"
        /\ ThreadResponseConverted(
               t, "response_converter.convert", response,
               ResponseConvertCall(bridge.ret.v.response_converter, response,
                                   uuid_hex))
    /\ UNCHANGED SequentialVars

\* A thread calls bridge.send_message(request): the first statement.
ThreadSendMessage ==
    /\ \E t \in 1..MaxThreads, request \in BridgeRequests :
        /\ threads[t].pc = "start"
        /\ ThreadRequestConverted(
               t, "send_message", request,
               RequestConvertCall(bridge.ret.v.request_converter, request))
    /\ UNCHANGED SequentialVars

\* send_message in a thread: the second statement.
ThreadDispatch ==
    /\ \E t \in 1..MaxThreads, outcome \in ThreadOutcomes :
        /\ threads[t].pc = "request_converted"
        /\ threads' = [threads EXCEPT ![t] =
              [@ EXCEPT !.pc = "dispatched",
                        !.outcome = outcome,
                        !.openai_response =
                            create_chat_completion(threads[t].openai_request,
                                                   outcome)]]
    /\ UNCHANGED <<bridge, SequentialVars>>

\* send_message in a thread: the third statement, and the return.
ThreadSendMessageReturn ==
    /\ \E t \in 1..MaxThreads, uuid_hex \in UuidHex :
        /\ threads[t].pc = "dispatched"
        /\ ThreadResponseConverted(
               t, "send_message", threads[t].openai_response,
               ResponseConvertCall(bridge.ret.v.response_converter,
                                   threads[t].openai_response, uuid_hex))
    /\ UNCHANGED SequentialVars

NextConcurrent ==
    \/ ThreadConvertRequest
    \/ ThreadConvertResponse
    \/ ThreadSendMessage
    \/ ThreadDispatch
    \/ ThreadSendMessageReturn

SpecConcurrent == InitConcurrent /\ [][NextConcurrent]_vars

-----------------------------------------------------------------------------
(* Properties. call holds the method a caller ran directly, its argument   *)
(* and what it returned or raised; the sm_ variables hold what             *)
(* send_message has computed so far.                                       *)

\* C1: for every id that does not begin with "toolu_",
\* _convert_tool_use_id_to_call_id(_convert_tool_call_id(id)) = id, and for
\* every id that does not begin with "call_",
\* _convert_tool_call_id(_convert_tool_use_id_to_call_id(id)) = id.
C1_IdRoundTrip ==
    /\ (call.op = "_convert_tool_call_id" /\ ~StartsWith(call.arg, TOOLU_))
           => _convert_tool_use_id_to_call_id(call.ret) = call.arg
    /\ (call.op = "_convert_tool_use_id_to_call_id" /\ ~StartsWith(call.arg, CALL_))
           => _convert_tool_call_id(call.ret) = call.arg

\* The tool calls of type "function" of the first choice of a completion.
FunctionCalls(openai_response) ==
    SelectSeq(openai_response.choices[1].message.tool_calls.v,
              LAMBDA c : c.type = "function")

\* C2: every tool-call id the provider returned comes back unchanged in the
\* follow-up request: as the id of the assistant message's tool calls and as
\* the tool_call_id of the tool messages, in the provider's order.
C2_IdsSurviveTurn ==
    (pc = "request_converted" /\ turn = "followup") =>
        LET calls == FunctionCalls(sm_openai_response)
            assistant == SelectSeq(sm_openai_request.messages,
                                   LAMBDA m : "tool_calls" \in DOMAIN m)
            tool == SelectSeq(sm_openai_request.messages,
                              LAMBDA m : m.role = "tool")
        IN  /\ Len(assistant) = 1
            /\ Len(assistant[1].tool_calls) = Len(calls)
            /\ Len(tool) = Len(calls)
            /\ \A i \in 1..Len(calls) :
                   /\ assistant[1].tool_calls[i].id = calls[i].id
                   /\ tool[i].tool_call_id = calls[i].id

\* The message has no non-empty text.
NoText(message) ==
    ~("content" \in DOMAIN message /\ message.content.ty = "str"
      /\ message.content.v # <<>>)

\* The message's tool calls are absent, None, empty, or none of type "function".
NoFunctionCall(message) ==
    \/ "tool_calls" \notin DOMAIN message
    \/ message.tool_calls.ty = "none"
    \/ \A i \in 1..Len(message.tool_calls.v) :
           message.tool_calls.v[i].type # "function"

ContentNeverEmpty(openai_response, result) ==
    "error" \notin DOMAIN openai_response =>
        /\ ~Raised(result)
        /\ Len(result.v.content) >= 1
        /\ (NoText(openai_response.choices[1].message)
            /\ NoFunctionCall(openai_response.choices[1].message))
               => result.v.content = <<[type |-> "text", text |-> <<>>]>>

\* C3: for every response that is no error envelope, ResponseConverter.convert
\* returns a content of at least one block; when the first choice's message
\* has no non-empty text and no tool call of type "function", the content is
\* exactly one text block with the empty string.
C3_ContentNeverEmpty ==
    /\ call.op = "ResponseConverter.convert" => ContentNeverEmpty(call.arg, call.ret)
    /\ pc = "returned" => ContentNeverEmpty(sm_openai_response, sm_result)

\* A message without text whose only tool call is not of type "function" was
\* converted to the single empty text block.
C3_Witness ==
    /\ call.op = "ResponseConverter.convert"
    /\ "error" \notin DOMAIN call.arg
    /\ "content" \in DOMAIN call.arg.choices[1].message
    /\ call.arg.choices[1].message.content = PyStr(<<>>)
    /\ "tool_calls" \in DOMAIN call.arg.choices[1].message
    /\ call.arg.choices[1].message.tool_calls.ty = "list"
    /\ Len(call.arg.choices[1].message.tool_calls.v) = 1
    /\ call.arg.choices[1].message.tool_calls.v[1].type = "custom"
    /\ call.ret = Ok(call.ret.v)
    /\ call.ret.v.content = <<[type |-> "text", text |-> <<>>]>>

\* The stop_reason the table gives the first choice's finish_reason.
ExpectedStopReason(choice) ==
    IF "finish_reason" \notin DOMAIN choice THEN "end_turn"
    ELSE IF choice.finish_reason = PyStr("stop") THEN "end_turn"
    ELSE IF choice.finish_reason = PyStr("length") THEN "max_tokens"
    ELSE IF choice.finish_reason = PyStr("content_filter") THEN "end_turn"
    ELSE IF choice.finish_reason = PyStr("function_call") THEN "tool_use"
    ELSE IF choice.finish_reason = PyStr("tool_calls") THEN "tool_use"
    ELSE "end_turn"

StopReasonMapped(openai_response, result) ==
    "error" \notin DOMAIN openai_response =>
        /\ ~Raised(result)
        /\ result.v.stop_reason = ExpectedStopReason(openai_response.choices[1])

\* C4: stop_reason is end_turn for stop, max_tokens for length, end_turn for
\* content_filter, tool_use for function_call and for tool_calls, and end_turn
\* for any other or a missing finish_reason; nothing is raised.
C4_FinishReasonTotal ==
    /\ call.op = "ResponseConverter.convert" => StopReasonMapped(call.arg, call.ret)
    /\ pc = "returned" => StopReasonMapped(sm_openai_response, sm_result)

\* A finish_reason outside the table was converted to end_turn.
C4_Witness ==
    /\ call.op = "ResponseConverter.convert"
    /\ "error" \notin DOMAIN call.arg
    /\ "finish_reason" \in DOMAIN call.arg.choices[1]
    /\ call.arg.choices[1].finish_reason = PyStr("")
    /\ call.ret = Ok(call.ret.v)
    /\ call.ret.v.stop_reason = "end_turn"

UpstreamErrorRaised(openai_response, result) ==
    ("error" \in DOMAIN openai_response
     /\ "message" \in DOMAIN openai_response.error) =>
        result = [exc |-> "Exception",
                  msg |-> <<"O", "p", "e", "n", "A", "I", " ", "A", "P", "I", " ",
                            "E", "r", "r", "o", "r", ":", " ">>
                          \o openai_response.error.message]

\* C5: a response with an error object makes ResponseConverter.convert raise
\* an exception whose message is "OpenAI API Error: " followed by
\* error.message, and return no response; send_message raises the same
\* exception to its caller.
C5_UpstreamError ==
    /\ call.op = "ResponseConverter.convert" => UpstreamErrorRaised(call.arg, call.ret)
    /\ pc \in {"returned", "raised"}
           => UpstreamErrorRaised(sm_openai_response, sm_result)
    /\ pc = "returned" => "error" \notin DOMAIN sm_openai_response

\* send_message raised the provider's error with the marker.
C5_Witness ==
    /\ pc = "raised"
    /\ "error" \in DOMAIN sm_openai_response
    /\ sm_openai_response.error.message = <<"d", "o", "w", "n">>
    /\ sm_result.exc = "Exception"
    /\ sm_result.msg = ERROR_MARKER \o <<"d", "o", "w", "n">>

\* The input the claim gives a tool call: the parsed JSON of its arguments, or
\* the empty mapping when they cannot be parsed.
ParsedOrEmpty(arguments) ==
    IF json_loads(arguments).exc = "none" THEN json_loads(arguments).v
    ELSE PyDict(<<>>)

\* C6: convert_openai_tool_calls_to_anthropic raises for no value of
\* function.arguments: every tool call of type "function" gives a ToolUse
\* block whose input is the parsed JSON of function.arguments, or the empty
\* mapping when function.arguments cannot be parsed.
C6_MalformedArgumentsNeverRaise ==
    call.op = "convert_openai_tool_calls_to_anthropic" =>
        /\ ~Raised(call.ret)
        /\ LET calls == SelectSeq(call.arg, LAMBDA c : c.type = "function")
           IN  /\ Len(call.ret.v) = Len(calls)
               /\ \A i \in 1..Len(calls) :
                      /\ call.ret.v[i].type = "tool_use"
                      /\ call.ret.v[i].input = ParsedOrEmpty(calls[i].function.arguments)

\* The outbound tools and tool_choice fields the claim gives a request.
ToolsFieldMapped(anthropic_request, openai_request) ==
    /\ "tools" \in DOMAIN openai_request <=> "tools" \in DOMAIN anthropic_request
    /\ "tools" \in DOMAIN anthropic_request =>
        /\ Len(openai_request.tools) = Len(anthropic_request.tools)
        /\ \A i \in 1..Len(anthropic_request.tools) :
               openai_request.tools[i] =
                   [type |-> "function",
                    function |->
                        [name |-> anthropic_request.tools[i].name,
                         description |-> anthropic_request.tools[i].description,
                         parameters |-> anthropic_request.tools[i].input_schema]]
    /\ "tool_choice" \notin DOMAIN anthropic_request
           => "tool_choice" \notin DOMAIN openai_request

\* C7: the outbound request has a tools field if and only if the inbound
\* request has one, with one function entry per tool definition, in order and
\* with the values unchanged (an empty sequence stays an empty sequence);
\* tool_choice is absent when the inbound request has none.
C7_ToolsField ==
    /\ call.op = "RequestConverter.convert" =>
           /\ ~Raised(call.ret)
           /\ ToolsFieldMapped(call.arg, call.ret.v)
    /\ pc = "request_converted" => ToolsFieldMapped(sm_request, sm_openai_request)

\* A request with an empty tools sequence and no tool_choice was converted.
C7_Witness ==
    /\ call.op = "RequestConverter.convert"
    /\ "tools" \in DOMAIN call.arg
    /\ call.arg.tools = <<>>
    /\ "tool_choice" \notin DOMAIN call.arg
    /\ call.ret = Ok(call.ret.v)
    /\ "tools" \in DOMAIN call.ret.v
    /\ call.ret.v.tools = <<>>

\* C8: convert_tool_choice_to_openai raises for no input; it returns "auto"
\* for "auto", "required" for "any", any other string unchanged,
\* {type: "function", function: {name}} for an object of type "tool", and
\* every other shape unchanged.
C8_ToolChoiceTotal ==
    call.op = "convert_tool_choice_to_openai" =>
        /\ ~Raised(call.ret)
        /\ IF call.arg = PyStr("any") THEN call.ret.v = PyStr("required")
           ELSE IF call.arg.ty = "dict" /\ "type" \in DOMAIN call.arg.v
                   /\ call.arg.v.type = "tool"
           THEN /\ call.ret.v.ty = "dict"
                /\ DOMAIN call.ret.v.v = {"type", "function"}
                /\ call.ret.v.v.type = "function"
                /\ call.ret.v.v.function = [name |-> call.arg.v.name]
           ELSE call.ret.v = call.arg

\* The outbound scalar fields the claim gives a request.
ScalarsMapped(anthropic_request, openai_request) ==
    /\ "model" \in DOMAIN openai_request <=> "model" \in DOMAIN anthropic_request
    /\ "model" \in DOMAIN anthropic_request
           => openai_request.model = anthropic_request.model
    /\ "temperature" \in DOMAIN openai_request
           <=> "temperature" \in DOMAIN anthropic_request
    /\ "temperature" \in DOMAIN anthropic_request
           => openai_request.temperature = anthropic_request.temperature
    /\ "max_completion_tokens" \in DOMAIN openai_request
           <=> "max_tokens" \in DOMAIN anthropic_request
    /\ "max_tokens" \in DOMAIN anthropic_request
           => openai_request.max_completion_tokens = anthropic_request.max_tokens
    /\ "max_tokens" \notin DOMAIN openai_request

\* C9: the outbound request has model, temperature and max_completion_tokens
\* exactly when the inbound request has model, temperature and max_tokens,
\* with the values unchanged, and never a max_tokens key.
C9_ScalarFields ==
    /\ call.op = "RequestConverter.convert" =>
           /\ ~Raised(call.ret)
           /\ ScalarsMapped(call.arg, call.ret.v)
    /\ pc = "request_converted" => ScalarsMapped(sm_request, sm_openai_request)

\* A request with max_tokens and temperature but no model was converted.
C9_Witness ==
    /\ call.op = "RequestConverter.convert"
    /\ "model" \notin DOMAIN call.arg
    /\ "temperature" \in DOMAIN call.arg
    /\ "max_tokens" \in DOMAIN call.arg
    /\ call.arg.max_tokens = 1
    /\ call.ret = Ok(call.ret.v)
    /\ call.ret.v.max_completion_tokens = 1
    /\ "model" \notin DOMAIN call.ret.v

\* The request without its system prompt.
WithoutSystem(anthropic_request) ==
    [k \in DOMAIN anthropic_request \ {"system"} |-> anthropic_request[k]]

\* The outbound messages the claim gives a request: the system message first,
\* then what the conversation messages alone are converted to.
SystemFirst(anthropic_request, openai_request) ==
    /\ "system" \in DOMAIN anthropic_request =>
        /\ Len(openai_request.messages) >= 1
        /\ openai_request.messages[1] =
               [role |-> "system", content |-> anthropic_request.system]
        /\ Tail(openai_request.messages) =
               RequestConverter_convert(WithoutSystem(anthropic_request)).v.messages
    /\ \A i \in 1..Len(openai_request.messages) :
           openai_request.messages[i].role = "system"
               => (i = 1 /\ "system" \in DOMAIN anthropic_request)

\* C10: the outbound messages of a request with a system prompt start with
\* {role: "system", content: the prompt}, before every converted conversation
\* message; a request without one gets no system message.
C10_SystemPromptFirst ==
    /\ call.op = "RequestConverter.convert" =>
           /\ ~Raised(call.ret)
           /\ SystemFirst(call.arg, call.ret.v)
    /\ pc = "request_converted" => SystemFirst(sm_request, sm_openai_request)

\* A request with a system prompt and two conversation messages was converted:
\* the system message is first and the two follow it.
C10_Witness ==
    /\ call.op = "RequestConverter.convert"
    /\ "system" \in DOMAIN call.arg
    /\ call.arg.system = PyStr(<<"a">>)
    /\ "messages" \in DOMAIN call.arg
    /\ Len(call.arg.messages) = 2
    /\ call.ret = Ok(call.ret.v)
    /\ Len(call.ret.v.messages) >= 3
    /\ call.ret.v.messages[1].role = "system"
    /\ call.ret.v.messages[2].role # "system"

\* The outbound messages one inbound message is converted to on its own:
\* none, one or several.
OutboundOf(message) ==
    IF message.role \notin {"user", "assistant"} THEN <<>>
    ELSE LET converted == _convert_message_content(message).v
         IN  IF converted.ty = "list" THEN converted.v
             ELSE IF converted.ty = "dict" THEN <<converted.v>>
             ELSE <<>>

\* The outbound messages of the inbound messages from position i on, each
\* message's own outbound messages before those of every later message.
RECURSIVE OutboundFrom(_, _)
OutboundFrom(anthropic_messages, i) ==
    IF i > Len(anthropic_messages) THEN <<>>
    ELSE OutboundOf(anthropic_messages[i]) \o OutboundFrom(anthropic_messages, i + 1)

OrderPreserved(anthropic_request, openai_request) ==
    (IF "system" \in DOMAIN anthropic_request
     THEN Tail(openai_request.messages) ELSE openai_request.messages)
        = OutboundFrom(Get(anthropic_request, "messages", <<>>), 1)

\* C11: the outbound messages of inbound message i all come before those of
\* inbound message j for i < j, whether a message expands into zero, one or
\* several outbound messages.
C11_OrderPreserved ==
    /\ call.op = "RequestConverter.convert" =>
           /\ ~Raised(call.ret)
           /\ OrderPreserved(call.arg, call.ret.v)
    /\ pc = "request_converted" => OrderPreserved(sm_request, sm_openai_request)

\* A request whose first message expands into three outbound messages and
\* whose second into one was converted: the fourth outbound message is the
\* second message's.
C11_Witness ==
    /\ call.op = "RequestConverter.convert"
    /\ "system" \notin DOMAIN call.arg
    /\ "messages" \in DOMAIN call.arg
    /\ Len(call.arg.messages) = 2
    /\ Len(OutboundOf(call.arg.messages[1])) = 3
    /\ Len(OutboundOf(call.arg.messages[2])) = 1
    /\ call.ret = Ok(call.ret.v)
    /\ Len(call.ret.v.messages) = 4
    /\ call.ret.v.messages[1].role = "user"
    /\ call.ret.v.messages[2].role = "tool"
    /\ call.ret.v.messages[4].role = "assistant"

\* The blocks of one type of a block list, in block order.
BlocksWithType(content, type) == SelectSeq(content, LAMBDA b : b.type = type)

\* The text of the Text blocks of a block list, joined by one space.
RECURSIVE JoinedBySpace(_)
JoinedBySpace(text_blocks) ==
    IF text_blocks = <<>> THEN <<>>
    ELSE IF Tail(text_blocks) = <<>> THEN text_blocks[1].text
    ELSE text_blocks[1].text \o <<" ">> \o JoinedBySpace(Tail(text_blocks))

JoinedText(content) == JoinedBySpace(BlocksWithType(content, "text"))

\* Nothing is left of s after trimming.
Blank(s) == \A i \in 1..Len(s) : IsSpace(s[i])

\* The tool message of one tool_result block.
ExpectedToolMessage(block) ==
    [role |-> "tool",
     tool_call_id |-> _convert_tool_use_id_to_call_id(block.tool_use_id),
     name |-> IF "name" \in DOMAIN block THEN block.name ELSE "unknown",
     content |-> block.content]

ToolResultsExpanded(message, result) ==
    LET tool_results == BlocksWithType(message.content.v, "tool_result")
        text == JoinedText(message.content.v)
    IN  /\ result.exc = "none"
        /\ result.v.ty = "list"
        /\ result.v.v =
               (IF Blank(text) THEN <<>>
                ELSE <<[role |-> message.role, content |-> PyStr(text)]>>)
               \o [i \in 1..Len(tool_results) |-> ExpectedToolMessage(tool_results[i])]

\* C12: a message whose block list holds k >= 1 tool_result blocks gives
\* exactly k messages of role "tool", in block order, each with the mapped
\* tool_call_id, the block's name or "unknown" and the block's content; one
\* message {role, content: the Text blocks joined by one space} comes before
\* them when the joined text is not blank, and none otherwise.
C12_ToolResultExpansion ==
    (/\ call.op = "_convert_message_content"
     /\ call.arg.content.ty = "list"
     /\ BlocksWithType(call.arg.content.v, "tool_result") # <<>>)
        => ToolResultsExpanded(call.arg, call.ret)

\* A message with a Text block and a tool_result block without a name was
\* converted to the text message followed by the tool message.
C12_Witness ==
    /\ call.op = "_convert_message_content"
    /\ call.arg.content.ty = "list"
    /\ Len(call.arg.content.v) = 2
    /\ call.arg.content.v[1] = [type |-> "text", text |-> <<"a">>]
    /\ call.arg.content.v[2].type = "tool_result"
    /\ "name" \notin DOMAIN call.arg.content.v[2]
    /\ call.ret = Ok(call.ret.v)
    /\ Len(call.ret.v.v) = 2
    /\ call.ret.v.v[1] = [role |-> call.arg.role, content |-> PyStr(<<"a">>)]
    /\ call.ret.v.v[2].role = "tool"
    /\ call.ret.v.v[2].name = "unknown"

\* The tool call of one tool_use block.
ExpectedToolCall(block) ==
    [id |-> _convert_tool_use_id_to_call_id(block.id),
     type |-> "function",
     function |-> [name |-> block.name,
                   arguments |-> PyStr(json_dumps(block.input))]]

ToolUseConverted(message, result) ==
    LET tool_uses == BlocksWithType(message.content.v, "tool_use")
        text == JoinedText(message.content.v)
    IN  /\ result.exc = "none"
        /\ result.v.ty = "dict"
        /\ result.v.v =
               [role |-> message.role,
                content |-> IF Blank(text) THEN PyNone ELSE PyStr(text),
                tool_calls |-> [i \in 1..Len(tool_uses) |->
                                   ExpectedToolCall(tool_uses[i])]]

\* C13: a message whose block list holds no tool_result block and m >= 1
\* tool_use blocks gives exactly one message with the inbound role, whose
\* tool_calls has m entries in block order, each {id: the mapped id, type:
\* "function", function: {name, arguments: the JSON serialization of input}},
\* and whose content is the Text blocks joined by one space, or None when
\* there is no Text block or the joined text is blank.
C13_ToolUseMessage ==
    (/\ call.op = "_convert_message_content"
     /\ call.arg.content.ty = "list"
     /\ BlocksWithType(call.arg.content.v, "tool_result") = <<>>
     /\ BlocksWithType(call.arg.content.v, "tool_use") # <<>>)
        => ToolUseConverted(call.arg, call.ret)

\* A message with a blank Text block and a tool_use block was converted to one
\* message without content, whose tool call has the mapped id and the input
\* {"k": 1} as a JSON string.
C13_Witness ==
    /\ call.op = "_convert_message_content"
    /\ call.arg.role = "assistant"
    /\ call.arg.content.ty = "list"
    /\ Len(call.arg.content.v) = 2
    /\ call.arg.content.v[1] = [type |-> "text", text |-> <<" ">>]
    /\ call.arg.content.v[2].type = "tool_use"
    /\ call.arg.content.v[2].id = TOOLU_ \o <<"a">>
    /\ call.ret = Ok(call.ret.v)
    /\ call.ret.v.ty = "dict"
    /\ call.ret.v.v.role = "assistant"
    /\ call.ret.v.v.content = PyNone
    /\ Len(call.ret.v.v.tool_calls) = 1
    /\ call.ret.v.v.tool_calls[1].id = CALL_ \o <<"a">>
    /\ call.ret.v.v.tool_calls[1].function.arguments =
           PyStr(<<"{", QUOTE, "k", QUOTE, ":", " ", "1", "}">>)

\* The block list holds no tool_result and no tool_use block.
NoToolBlocks(content) ==
    /\ content.ty = "list"
    /\ BlocksWithType(content.v, "tool_result") = <<>>
    /\ BlocksWithType(content.v, "tool_use") = <<>>

TextOnlyConverted(message, result) ==
    IF Blank(JoinedText(message.content.v))
    THEN result = Ok(PyNone)
    ELSE result = Ok(PyDict([role |-> message.role,
                             content |-> PyStr(JoinedText(message.content.v))]))

\* C14: a message whose block list holds no tool_result and no tool_use block
\* gives exactly one message {role, content: the Text blocks' text joined by
\* one space} when the joined text is not blank, and no message otherwise; an
\* empty block list contributes no outbound message to the request.
C14_TextOnly ==
    /\ (call.op = "_convert_message_content" /\ NoToolBlocks(call.arg.content))
           => TextOnlyConverted(call.arg, call.ret)
    /\ (/\ call.op = "RequestConverter.convert"
        /\ "system" \notin DOMAIN call.arg
        /\ "messages" \in DOMAIN call.arg
        /\ \A i \in 1..Len(call.arg.messages) :
               call.arg.messages[i].content = PyList(<<>>))
           => call.ret = Ok(call.ret.v) /\ call.ret.v.messages = <<>>

\* Two Text blocks were joined by one space into one message.
C14_Witness ==
    /\ call.op = "_convert_message_content"
    /\ call.arg.content = PyList(<<[type |-> "text", text |-> <<"a">>],
                                   [type |-> "text", text |-> <<"a">>]>>)
    /\ call.ret = Ok(PyDict([role |-> call.arg.role,
                             content |-> PyStr(<<"a", " ", "a">>)]))

\* A request of two messages with empty block lists was converted to a request
\* without messages.
C14_WitnessEmpty ==
    /\ call.op = "RequestConverter.convert"
    /\ "system" \notin DOMAIN call.arg
    /\ "messages" \in DOMAIN call.arg
    /\ Len(call.arg.messages) = 2
    /\ \A i \in 1..2 : call.arg.messages[i].content = PyList(<<>>)
    /\ call.ret = Ok(call.ret.v)
    /\ call.ret.v.messages = <<>>

\* The calls send_message makes when every statement runs.
ThreeCalls ==
    <<CallRecord("request_converter.convert", sm_request),
      CallRecord("openai_client.create_chat_completion", sm_openai_request),
      CallRecord("response_converter.convert", sm_openai_response)>>

RequestStepRan == RequestConverter_convert(sm_request) = Ok(sm_openai_request)

DispatchStepRan ==
    \E outcome \in ProviderOutcomes(turn) :
        sm_openai_response = create_chat_completion(sm_openai_request, outcome)

ResponseStepRan ==
    \E uuid_hex \in UuidHex :
        sm_result = ResponseConverter_convert(sm_openai_response, uuid_hex)

\* C15: In every call of send_message the request conversion runs once on the
\* caller's request, then the dispatch runs once on the converted request,
\* then the response conversion runs once on what the dispatch returned, and
\* its result is what send_message returns; once a step has raised no later
\* step runs, so a request whose conversion raised is never dispatched.
C15_PipelineOrder ==
    /\ pc = "idle" => sm_calls = <<>>
    /\ pc = "request_converted" =>
        /\ sm_calls = SubSeq(ThreeCalls, 1, 1)
        /\ RequestStepRan
    /\ pc = "dispatched" =>
        /\ sm_calls = SubSeq(ThreeCalls, 1, 2)
        /\ RequestStepRan
        /\ DispatchStepRan
    /\ pc = "returned" =>
        /\ sm_calls = ThreeCalls
        /\ RequestStepRan
        /\ DispatchStepRan
        /\ ResponseStepRan
        /\ ~Raised(sm_result)
    /\ pc = "raised" =>
        \/ /\ sm_calls = SubSeq(ThreeCalls, 1, 1)
           /\ sm_result = RequestConverter_convert(sm_request)
           /\ Raised(sm_result)
        \/ /\ sm_calls = ThreeCalls
           /\ RequestStepRan
           /\ DispatchStepRan
           /\ ResponseStepRan
           /\ Raised(sm_result)

\* send_message has returned after its three calls.
C15_Witness == pc = "returned" /\ Len(sm_calls) = 3

\* send_message has raised in the request conversion, its only call.
C15_WitnessRaised == pc = "raised" /\ Len(sm_calls) = 1

\* What the call of a thread returns or raises when it runs alone on a bridge
\* just constructed, with the same answer of the provider and response id
\* uuid_hex.
AloneSendMessage(converted, outcome, uuid_hex) ==
    IF Raised(converted) THEN converted
    ELSE ResponseConverter_convert(create_chat_completion(converted.v, outcome),
                                   uuid_hex)

AloneResult(thread, uuid_hex) ==
    CASE thread.op = "request_converter.convert" ->
            RequestConverter_convert(thread.request)
      [] thread.op = "response_converter.convert" ->
            ResponseConverter_convert(thread.openai_response, uuid_hex)
      [] thread.op = "send_message" ->
            AloneSendMessage(RequestConverter_convert(thread.request),
                             thread.outcome, uuid_hex)

ThreadFinished(thread) == thread.pc \in {"returned", "raised"}

\* C16: Under every interleaving of concurrent convert and send_message calls
\* on the converters of one bridge, the attributes of the converter instances
\* stay as construction left them, and every call that has finished returned
\* or raised what it does alone, up to the response id generated.
C16_ConcurrentReuse ==
    threads # NoThreads =>
        /\ bridge.ret = AnthropicOpenAIBridge_init(bridge.arg, bridge.env)
        /\ bridge.ret.v.request_converter = RequestConverter_init
        /\ bridge.ret.v.response_converter = ResponseConverter_init
        /\ \A t \in 1..MaxThreads :
            ThreadFinished(threads[t]) =>
                \E uuid_hex \in UuidHex :
                    threads[t].result = AloneResult(threads[t], uuid_hex)

\* Two threads have each run send_message on the shared bridge, with different
\* requests, and both calls have finished: one returned, one raised.
C16_Witness ==
    /\ threads # NoThreads
    /\ threads[1].op = "send_message"
    /\ threads[2].op = "send_message"
    /\ threads[1].pc = "returned"
    /\ threads[2].pc = "raised"
    /\ threads[1].request # threads[2].request

\* The keyword arguments the OpenAI client is to be constructed with for a
\* configuration manager in an environment.
ExpectedKwargs(config_manager, env) ==
    ("api_key" :> openai_api_key(config_manager, env).v)
    @@ (IF TruthyValue(openai_base_url(config_manager, env))
        THEN "base_url" :> openai_base_url(config_manager, env) ELSE EmptyDict)
    @@ (IF httpx_client(config_manager) # PyNone
        THEN "http_client" :> httpx_client(config_manager) ELSE EmptyDict)

\* C17: A client wrapper constructs the OpenAI client with the api key, with
\* base_url when a base URL is configured, and with http_client set to the
\* configuration manager's custom httpx client when it holds one; without a
\* custom client no http_client argument is passed.
C17_CustomTransport ==
    /\ (call.op = "OpenAIClientWrapper" /\ ~Raised(call.ret)) =>
          call.ret.v.client.kwargs = ExpectedKwargs(call.arg.config_manager,
                                                    call.arg.env)
    /\ Built =>
          bridge.ret.v.openai_client.client.kwargs
              = ExpectedKwargs(bridge.ret.v.config, bridge.env)

\* The envelope for an exception whose text is message, with the code the
\* exception carries if it has one.
ErrorEnvelope(outcome) ==
    [error |-> [message |-> outcome.text,
                type |-> "api_error",
                code |-> IF "code" \in DOMAIN outcome THEN outcome.code
                         ELSE "unknown"]]

\* What create_chat_completion is to return for an outcome of the provider's
\* call.
DispatchResult(outcome) ==
    IF outcome.kind = "response" THEN outcome.response ELSE ErrorEnvelope(outcome)

\* C18: create_chat_completion returns the provider's response as a dictionary
\* when the call to the provider succeeds, and the error envelope
\* {error: {message: str(e), type: "api_error", code: e.code or "unknown"}}
\* when the call throws e; it never raises, so send_message always goes on
\* to the response conversion once the request is converted.
C18_DispatchNeverRaises ==
    /\ call.op = "create_chat_completion" =>
          call.ret = DispatchResult(call.arg.outcome)
    /\ pc = "dispatched" =>
          \E outcome \in ProviderOutcomes(turn) :
              sm_openai_response = DispatchResult(outcome)
    /\ pc = "raised" =>
          sm_calls[Len(sm_calls)].callee # "openai_client.create_chat_completion"

\* The provider's call threw an exception carrying a code, and the envelope
\* was returned.
C18_Witness ==
    /\ call.op = "create_chat_completion"
    /\ call.arg.outcome.kind = "exception"
    /\ "code" \in DOMAIN call.arg.outcome
    /\ call.ret = ErrorEnvelope(call.arg.outcome)

\* The provider's call threw an exception without a code: the envelope's code
\* is "unknown", and send_message holds the envelope.
C18_WitnessNoCode ==
    /\ pc = "dispatched"
    /\ "error" \in DOMAIN sm_openai_response
    /\ sm_openai_response.error.code = "unknown"

\* A key is given, or available in the environment, when it is a non-empty
\* string.
KeyGiven(key) == key # PyNone /\ key # PyStr(<<>>)

ResolvedKey(explicit, environment) ==
    IF KeyGiven(explicit) THEN Ok(explicit)
    ELSE IF KeyGiven(environment) THEN Ok(environment)
    ELSE Raise("ValueError")

KeyOf(config_manager, env) ==
    ResolvedKey(config_manager._custom_openai_api_key, env.OPENAI_API_KEY)

\* C19: ConfigManager.openai_api_key returns the key passed explicitly when
\* one was given, otherwise the value of OPENAI_API_KEY in the environment,
\* and raises ValueError when there is neither. The client wrapper reads the
\* key when it is constructed, so the construction of a bridge without any key
\* raises ValueError, and send_message only ever runs on a bridge that has one.
C19_CredentialResolution ==
    /\ call.op = "ConfigManager.openai_api_key" =>
          call.ret = KeyOf(call.arg.self, call.arg.env)
    /\ call.op = "OpenAIClientWrapper" =>
          IF Raised(KeyOf(call.arg.config_manager, call.arg.env))
          THEN call.ret = Raise("ValueError")
          ELSE /\ ~Raised(call.ret)
               /\ Ok(call.ret.v.client.kwargs.api_key)
                      = KeyOf(call.arg.config_manager, call.arg.env)
    /\ bridge # NoBridge =>
          IF /\ ~KeyGiven(bridge.arg.openai_api_key)
             /\ ~KeyGiven(bridge.env.OPENAI_API_KEY)
             /\ bridge.arg.config_manager # PyNone =>
                   ~KeyGiven(bridge.arg.config_manager._custom_openai_api_key)
          THEN bridge.ret = Raise("ValueError")
          ELSE /\ ~Raised(bridge.ret)
               /\ Ok(bridge.ret.v.openai_client.client.kwargs.api_key)
                      = KeyOf(bridge.ret.v.config, bridge.env)
    /\ (pc # "idle" \/ sm_calls # <<>>) => Built

\* A bridge was constructed without any key: the construction raised, and
\* nothing was converted or dispatched.
C19_Witness ==
    /\ bridge # NoBridge
    /\ bridge.ret = Raise("ValueError")
    /\ sm_calls = <<>>

\* The key was read with both an explicit key and an environment key.
C19_WitnessExplicit ==
    /\ call.op = "ConfigManager.openai_api_key"
    /\ call.arg.self._custom_openai_api_key = PyStr(CUSTOM_KEY)
    /\ call.arg.env.OPENAI_API_KEY = PyStr(ENV_KEY)
    /\ call.ret = Ok(PyStr(CUSTOM_KEY))

\* The count of a usage record, 0 when the response has no usage record or the
\* record has no such field.
TokenCount(openai_response, field) ==
    IF "usage" \notin DOMAIN openai_response THEN 0
    ELSE IF field \notin DOMAIN openai_response.usage THEN 0
    ELSE openai_response.usage[field]

UsageMapped(openai_response, result) ==
    ("error" \notin DOMAIN openai_response /\ ~Raised(result)) =>
        /\ result.v.usage.input_tokens = TokenCount(openai_response, "prompt_tokens")
        /\ result.v.usage.output_tokens
               = TokenCount(openai_response, "completion_tokens")

C20_WitnessMissingField ==
    /\ call.op = "ResponseConverter.convert"
    /\ "usage" \in DOMAIN call.arg
    /\ DOMAIN call.arg.usage = {"completion_tokens"}
    /\ ~Raised(call.ret)
    /\ call.ret.v.usage = [input_tokens |-> 0, output_tokens |-> 5]

\* A response without a usage record was converted.
C20_WitnessMissingRecord ==
    /\ call.op = "ResponseConverter.convert"
    /\ "error" \notin DOMAIN call.arg
    /\ "usage" \notin DOMAIN call.arg
    /\ ~Raised(call.ret)
    /\ call.ret.v.usage = [input_tokens |-> 0, output_tokens |-> 0]

\* The tool calls of a message, none when the field is absent or None.
ToolCallsOf(message) ==
    IF "tool_calls" \in DOMAIN message /\ message.tool_calls.ty = "list"
    THEN message.tool_calls.v ELSE <<>>

FunctionCallsOf(message) ==
    SelectSeq(ToolCallsOf(message), LAMBDA tool_call : tool_call.type = "function")

\* type, id and name of a block, None for a field a text block has not.
BlockHead(block) ==
    [type |-> block.type,
     id |-> Get(block, "id", PyNone),
     name |-> Get(block, "name", PyNone)]

\* One ToolUse block per tool call of type "function", in their order.
ExpectedToolUses(message) ==
    [i \in 1..Len(FunctionCallsOf(message)) |->
        [type |-> "tool_use",
         id |-> _convert_tool_call_id(FunctionCallsOf(message)[i].id),
         name |-> FunctionCallsOf(message)[i].function.name]]

\* The blocks of content from the n-th on, by type, id and name.
HeadsFrom(content, n) ==
    [i \in 1..(Len(content) - n + 1) |-> BlockHead(content[i + n - 1])]

\* The content is the text block of the message, if its content is a non-empty
\* string, then the ToolUse blocks.
TextThenToolUses(message, content) ==
    IF NoText(message)
    THEN HeadsFrom(content, 1) = ExpectedToolUses(message)
    ELSE /\ content # <<>>
         /\ content[1] = [type |-> "text", text |-> message.content.v]
         /\ HeadsFrom(content, 2) = ExpectedToolUses(message)

\* The statement as claimed: without text, a message whose tool_calls is a
\* non-empty list gets no Text block at all.
BlocksAsClaimed(openai_response, result) ==
    ("error" \notin DOMAIN openai_response /\ ~Raised(result)) =>
        IF NoText(openai_response.choices[1].message)
           /\ ToolCallsOf(openai_response.choices[1].message) = <<>>
        THEN result.v.content = <<[type |-> "text", text |-> <<>>]>>
        ELSE TextThenToolUses(openai_response.choices[1].message, result.v.content)

\* The statement as the code has it: the Text block is left out only when a
\* ToolUse block is produced.
BlocksAsBuilt(openai_response, result) ==
    ("error" \notin DOMAIN openai_response /\ ~Raised(result)) =>
        IF NoText(openai_response.choices[1].message)
           /\ FunctionCallsOf(openai_response.choices[1].message) = <<>>
        THEN result.v.content = <<[type |-> "text", text |-> <<>>]>>
        ELSE TextThenToolUses(openai_response.choices[1].message, result.v.content)

\* C21 as stated: the content holds at most one Text block, first and with
\* message.content unchanged, none when the content is empty or null and tool
\* calls are present, followed by one ToolUse block per tool call of type
\* "function" in order, with the function's name and the mapped id.
C21_BlockOrderAsClaimed ==
    /\ call.op = "ResponseConverter.convert" => BlocksAsClaimed(call.arg, call.ret)
    /\ pc = "returned" => BlocksAsClaimed(sm_openai_response, sm_result)

\* C21, amended: the content holds the Text block with message.content when
\* that is a non-empty string, followed by one ToolUse block per tool call of
\* type "function" in order, with the function's name and the mapped id; when
\* that leaves no block at all, the content is one Text block with the empty
\* string, also when tool calls of another type are present.
C21_BlockOrder ==
    /\ call.op = "ResponseConverter.convert" => BlocksAsBuilt(call.arg, call.ret)
    /\ pc = "returned" => BlocksAsBuilt(sm_openai_response, sm_result)

\* A message with text, a tool call of type "function" and one of another type
\* was converted to the Text block and one ToolUse block.
C21_Witness ==
    /\ call.op = "ResponseConverter.convert"
    /\ "error" \notin DOMAIN call.arg
    /\ ~NoText(call.arg.choices[1].message)
    /\ Len(ToolCallsOf(call.arg.choices[1].message)) = 2
    /\ Len(FunctionCallsOf(call.arg.choices[1].message)) = 1
    /\ ~Raised(call.ret)
    /\ Len(call.ret.v.content) = 2
    /\ call.ret.v.content[1].type = "text"
    /\ call.ret.v.content[2].type = "tool_use"

RecognizedRole(message) == message.role \in {"user", "assistant"}

\* The request without its messages of an unrecognized role.
WithoutUnrecognizedRoles(anthropic_request) ==
    IF "messages" \in DOMAIN anthropic_request
    THEN [anthropic_request EXCEPT !.messages = SelectSeq(@, RecognizedRole)]
    ELSE anthropic_request

\* C22: A message whose role is neither "user" nor "assistant" adds no
\* outbound message and raises nothing, and the rest of the request is
\* converted as if the message were not there.
C22_UnrecognizedRoleDropped ==
    call.op = "RequestConverter.convert" =>
        /\ ~Raised(call.ret)
        /\ call.ret = RequestConverter_convert(WithoutUnrecognizedRoles(call.arg))
        /\ "messages" \in DOMAIN call.arg =>
              Len(call.ret.v.messages)
                  = Len(OutboundFrom(SelectSeq(call.arg.messages, RecognizedRole), 1))
                    + (IF "system" \in DOMAIN call.arg THEN 1 ELSE 0)

\* A request whose first message has the role "system" and whose second is a
\* user message was converted to the user message alone.
C22_Witness ==
    /\ call.op = "RequestConverter.convert"
    /\ "system" \notin DOMAIN call.arg
    /\ "messages" \in DOMAIN call.arg
    /\ Len(call.arg.messages) = 2
    /\ call.arg.messages[1].role = "system"
    /\ call.arg.messages[2] = [role |-> "user", content |-> PyStr(<<"a">>)]
    /\ call.ret = Ok(call.ret.v)
    /\ call.ret.v.messages = <<[role |-> "user", content |-> PyStr(<<"a">>)]>>

NotToolUse(block) == block.type # "tool_use"

\* The message without its tool_use blocks.
WithoutToolUse(message) ==
    [message EXCEPT !.content = PyList(SelectSeq(@.v, NotToolUse))]

\* The content is a block list with a tool_result and a tool_use block.
HoldsBoth(message) ==
    /\ message.content.ty = "list"
    /\ BlocksWithType(message.content.v, "tool_result") # <<>>
    /\ BlocksWithType(message.content.v, "tool_use") # <<>>

\* C23: For a message whose block list holds both tool_result and tool_use
\* blocks the tool-result branch alone is taken: a list of messages is
\* returned, none of them has a tool_calls field, and the list is the one
\* returned for the message without its tool_use blocks.
C23_ToolResultPrecedence ==
    (call.op = "_convert_message_content" /\ HoldsBoth(call.arg)) =>
        /\ ~Raised(call.ret)
        /\ call.ret.v.ty = "list"
        /\ \A i \in 1..Len(call.ret.v.v) : "tool_calls" \notin DOMAIN call.ret.v.v[i]
        /\ call.ret = _convert_message_content(WithoutToolUse(call.arg))

\* A message holding a tool_use block and then a tool_result block was
\* converted to the tool message alone.
C23_Witness ==
    /\ call.op = "_convert_message_content"
    /\ HoldsBoth(call.arg)
    /\ call.arg.content.v[1].type = "tool_use"
    /\ call.ret = Ok(call.ret.v)
    /\ Len(call.ret.v.v) = 1
    /\ call.ret.v.v[1].role = "tool"

StringContent(message) == RecognizedRole(message) /\ message.content.ty = "str"

\* The outbound messages, without the system prompt's.
ConversationOf(anthropic_request, openai_request) ==
    IF "system" \in DOMAIN anthropic_request
    THEN Tail(openai_request.messages) ELSE openai_request.messages

\* C24: A user or assistant message whose content is a plain string gives
\* exactly one outbound message, with the same role and the string unchanged,
\* also for the empty and the whitespace-only string.
C24_PlainString ==
    /\ (call.op = "_convert_message_content" /\ StringContent(call.arg)) =>
          call.ret = Ok(PyDict([role |-> call.arg.role,
                                content |-> call.arg.content]))
    /\ (/\ call.op = "RequestConverter.convert"
        /\ "messages" \in DOMAIN call.arg
        /\ \A i \in 1..Len(call.arg.messages) : StringContent(call.arg.messages[i]))
          => /\ ~Raised(call.ret)
             /\ ConversationOf(call.arg, call.ret.v) = call.arg.messages

\* A whitespace-only string was converted to a message holding it.
C24_Witness ==
    /\ call.op = "_convert_message_content"
    /\ call.arg = [role |-> "user", content |-> PyStr(<<" ">>)]
    /\ call.ret = Ok(PyDict([role |-> "user", content |-> PyStr(<<" ">>)]))

\* A request of a user message and an assistant message with the empty string
\* was converted to those two messages.
C24_WitnessEmpty ==
    /\ call.op = "RequestConverter.convert"
    /\ "system" \notin DOMAIN call.arg
    /\ "messages" \in DOMAIN call.arg
    /\ call.arg.messages = <<[role |-> "user", content |-> PyStr(<<"a">>)],
                             [role |-> "assistant", content |-> PyStr(<<>>)]>>
    /\ call.ret = Ok(call.ret.v)
    /\ call.ret.v.messages = call.arg.messages

IsToolResult(block) == "type" \in DOMAIN block /\ block.type = "tool_result"

\* One tool message for each tool_result block, in their order.
ExpectedToolMessages(anthropic_content) ==
    [i \in 1..Len(SelectSeq(anthropic_content, IsToolResult)) |->
        ExpectedToolMessage(SelectSeq(anthropic_content, IsToolResult)[i])]

\* C25: convert_anthropic_tool_results_to_openai returns one tool-role message
\* for each block of type "tool_result", in the order of the input, with the
\* name "unknown" when the block has none; every other element is left out
\* and nothing is raised.
C25_ToolResultFiltering ==
    call.op = "convert_anthropic_tool_results_to_openai" =>
        call.ret = Ok(ExpectedToolMessages(call.arg))

\* A dict without a type and a tool_result block without a name were
\* converted to one tool message named "unknown".
C25_Witness ==
    /\ call.op = "convert_anthropic_tool_results_to_openai"
    /\ Len(call.arg) = 2
    /\ "type" \notin DOMAIN call.arg[1]
    /\ IsToolResult(call.arg[2])
    /\ "name" \notin DOMAIN call.arg[2]
    /\ call.ret = Ok(call.ret.v)
    /\ Len(call.ret.v) = 1
    /\ call.ret.v[1].name = "unknown"

\* The response with its first choice alone.
FirstChoiceOnly(openai_response) ==
    [openai_response EXCEPT !.choices = <<@[1]>>]

\* content, stop_reason, usage and model of a message.
Converted(message) ==
    [content |-> message.content, stop_reason |-> message.stop_reason,
     usage |-> message.usage, model |-> message.model]

\* C26: The content, stop_reason, usage and model of the message converted
\* from a response that is no error are those converted from the response
\* with its first choice alone: the choices after the first change nothing.
C26_FirstChoiceOnly ==
    (call.op = "ResponseConverter.convert" /\ "error" \notin DOMAIN call.arg) =>
        /\ ~Raised(call.ret)
        /\ \A uuid_hex \in UuidHex :
              Converted(call.ret.v)
                  = Converted(ResponseConverter_convert(FirstChoiceOnly(call.arg),
                                                        uuid_hex).v)

\* A response with a second choice of another text and finish reason was
\* converted to the text and stop reason of the first.
C26_Witness ==
    /\ call.op = "ResponseConverter.convert"
    /\ "error" \notin DOMAIN call.arg
    /\ Len(call.arg.choices) = 2
    /\ call.arg.choices[2] = OTHER_CHOICE
    /\ "content" \in DOMAIN call.arg.choices[1].message
    /\ "finish_reason" \in DOMAIN call.arg.choices[1]
    /\ call.arg.choices[1].finish_reason = PyStr("stop")
    /\ call.ret = Ok(call.ret.v)
    /\ call.ret.v.content[1] = [type |-> "text", text |-> <<"a">>]
    /\ call.ret.v.stop_reason = "end_turn"

IsToolMessage(message) == message.role = "tool"

\* The tool_use blocks of an inbound message that reach the outbound request:
\* those of a block list without tool_result blocks.
ToolUsesOf(message) ==
    IF RecognizedRole(message) /\ message.content.ty = "list"
       /\ BlocksWithType(message.content.v, "tool_result") = <<>>
    THEN BlocksWithType(message.content.v, "tool_use") ELSE <<>>

ToolResultsOf(message) ==
    IF RecognizedRole(message) /\ message.content.ty = "list"
    THEN BlocksWithType(message.content.v, "tool_result") ELSE <<>>

\* The outbound tool calls of an inbound message with tool_use blocks, and
\* the outbound tool messages of an inbound message.
ToolCallsOut(message) == OutboundOf(message)[1].tool_calls
ToolMessagesOut(message) == SelectSeq(OutboundOf(message), IsToolMessage)

\* Every tool_use block and tool_result block of the request with the same
\* id are converted to a tool call and a tool message with the same id.
Paired(anthropic_request) ==
    \A i, j \in 1..Len(anthropic_request.messages) :
        \A a \in 1..Len(ToolUsesOf(anthropic_request.messages[i])) :
            \A k \in 1..Len(ToolResultsOf(anthropic_request.messages[j])) :
                ToolUsesOf(anthropic_request.messages[i])[a].id
                    = ToolResultsOf(anthropic_request.messages[j])[k].tool_use_id
                => /\ Len(ToolCallsOut(anthropic_request.messages[i]))
                          = Len(ToolUsesOf(anthropic_request.messages[i]))
                   /\ Len(ToolMessagesOut(anthropic_request.messages[j]))
                          = Len(ToolResultsOf(anthropic_request.messages[j]))
                   /\ ToolCallsOut(anthropic_request.messages[i])[a].id
                          = ToolMessagesOut(anthropic_request.messages[j])[k].tool_call_id

\* C27: A tool_use block with id x and a tool_result block with tool_use_id x
\* of one request give an outbound tool call and an outbound tool message
\* with the same id, for every string x: the id of a tool call and that of a
\* tool message are both the mapped id of x.
C27_PairingInRequest ==
    /\ call.op = "_convert_tool_use_id_to_call_id" =>
          /\ ToolCallOf([type |-> "tool_use", id |-> call.arg,
                         name |-> "get_weather", input |-> INPUT_K1]).id = call.ret
          /\ ToolMessageOf([type |-> "tool_result", tool_use_id |-> call.arg,
                            content |-> PyStr(<<"a">>)]).tool_call_id = call.ret
    /\ (call.op = "RequestConverter.convert" /\ "messages" \in DOMAIN call.arg) =>
          /\ ~Raised(call.ret)
          /\ OrderPreserved(call.arg, call.ret.v)
          /\ Paired(call.arg)
    /\ pc = "request_converted" =>
          /\ OrderPreserved(sm_request, sm_openai_request)
          /\ Paired(sm_request)

\* A follow-up request was converted: its assistant message has a tool call
\* and its last message is the tool message answering it.
C27_Witness ==
    /\ pc = "request_converted"
    /\ turn = "followup"
    /\ Len(sm_openai_request.messages) = 3
    /\ "tool_calls" \in DOMAIN sm_openai_request.messages[2]
    /\ sm_openai_request.messages[3].role = "tool"
    /\ sm_openai_request.messages[2].tool_calls[1].id
           = sm_openai_request.messages[3].tool_call_id

\* The ids of the ToolUse blocks of an inbound response.
ToolUseIdsOut(message) ==
    LET blocks == SelectSeq(message.content, LAMBDA b : b.type = "tool_use")
    IN  [i \in 1..Len(blocks) |-> blocks[i].id]

\* C28: _convert_tool_use_id_to_call_id maps no two different inbound ids to
\* the same outbound id, _convert_tool_call_id maps no two different outbound
\* ids to the same inbound id, and the function calls of one provider
\* response with different ids become ToolUse blocks with different ids.
C28_IdMappingInjective ==
    /\ call.op = "_convert_tool_use_id_to_call_id" =>
          \A other \in Ids :
              other # call.arg => _convert_tool_use_id_to_call_id(other) # call.ret
    /\ call.op = "_convert_tool_call_id" =>
          \A other \in Ids :
              other # call.arg => _convert_tool_call_id(other) # call.ret
    /\ (pc = "returned" /\ "error" \notin DOMAIN sm_openai_response
        /\ ~Raised(sm_result) /\ ~NoFunctionCall(sm_openai_response.choices[1].message)) =>
          LET calls == FunctionCalls(sm_openai_response)
              ids == ToolUseIdsOut(sm_result.v)
          IN  \A i, j \in 1..Len(calls) :
                  (Len(ids) = Len(calls) /\ calls[i].id # calls[j].id) => ids[i] # ids[j]

\* The part of C28 about one provider response.
C28_DistinctInResponse ==
    (pc = "returned" /\ "error" \notin DOMAIN sm_openai_response
     /\ ~Raised(sm_result) /\ ~NoFunctionCall(sm_openai_response.choices[1].message)) =>
        \A i, j \in 1..Len(FunctionCalls(sm_openai_response)) :
            (/\ Len(ToolUseIdsOut(sm_result.v)) = Len(FunctionCalls(sm_openai_response))
             /\ FunctionCalls(sm_openai_response)[i].id # FunctionCalls(sm_openai_response)[j].id)
            => ToolUseIdsOut(sm_result.v)[i] # ToolUseIdsOut(sm_result.v)[j]

\* The two choices have the same finish_reason, or both have none.
SameFinishReason(choice, other) ==
    /\ "finish_reason" \in DOMAIN choice <=> "finish_reason" \in DOMAIN other
    /\ "finish_reason" \in DOMAIN choice => choice.finish_reason = other.finish_reason

HoldsToolUse(message) == \E i \in 1..Len(message.content) : message.content[i].type = "tool_use"

\* The messages a first choice is given in place of its own: with and
\* without text, with and without tool calls.
VariantMessages ==
    {ProviderMessage(c, tc) :
        c \in Opt("content", {PyNone, PyStr(<<"a", "a">>)}),
        tc \in Opt("tool_calls", {PyNone, PyList(<<CALL_A>>)})}

\* Responses whose first choice has the finish_reason of openai_response and
\* another message, with the other fields of openai_response and without.
Variants(openai_response) ==
    {[openai_response EXCEPT !.choices = <<[@[1] EXCEPT !.message = m]>>] :
        m \in VariantMessages}
    \cup {[choices |-> <<[openai_response.choices[1] EXCEPT !.message = m]>>] :
            m \in VariantMessages}

\* The stop reason of the converted response is that of every response with
\* the same finish_reason and another message, and with ToolUse blocks it is
\* tool_use only for the finish reasons tool_calls and function_call.
StopReasonByFinishReasonAlone(openai_response, result) ==
    "error" \notin DOMAIN openai_response =>
        /\ ~Raised(result)
        /\ \A other \in Variants(openai_response), uuid_hex \in UuidHex :
               SameFinishReason(openai_response.choices[1], other.choices[1]) =>
                   /\ ~Raised(ResponseConverter_convert(other, uuid_hex))
                   /\ ResponseConverter_convert(other, uuid_hex).v.stop_reason
                          = result.v.stop_reason
        /\ (HoldsToolUse(result.v) /\ result.v.stop_reason = "tool_use") =>
               /\ "finish_reason" \in DOMAIN openai_response.choices[1]
               /\ openai_response.choices[1].finish_reason
                      \in {PyStr("tool_calls"), PyStr("function_call")}

\* C29: two responses without error whose first choices have the same
\* finish_reason get the same stop_reason, whatever their text and tool
\* calls; a response converted to ToolUse blocks has the stop_reason
\* tool_use only when its finish_reason is tool_calls or function_call.
C29_StopReasonNoninterference ==
    /\ call.op = "ResponseConverter.convert" =>
           StopReasonByFinishReasonAlone(call.arg, call.ret)
    /\ pc = "returned" => StopReasonByFinishReasonAlone(sm_openai_response, sm_result)

\* A response with a tool call and the finish reason stop was converted: it
\* holds a ToolUse block and its stop reason is end_turn.
C29_Witness ==
    /\ call.op = "ResponseConverter.convert"
    /\ "error" \notin DOMAIN call.arg
    /\ "finish_reason" \in DOMAIN call.arg.choices[1]
    /\ call.arg.choices[1].finish_reason = PyStr("stop")
    /\ call.ret = Ok(call.ret.v)
    /\ HoldsToolUse(call.ret.v)
    /\ call.ret.v.stop_reason = "end_turn"

\* A response with text alone and the finish reason tool_calls was converted:
\* its stop reason is tool_use.
C29_WitnessTextOnly ==
    /\ call.op = "ResponseConverter.convert"
    /\ "error" \notin DOMAIN call.arg
    /\ "finish_reason" \in DOMAIN call.arg.choices[1]
    /\ call.arg.choices[1].finish_reason = PyStr("tool_calls")
    /\ call.ret = Ok(call.ret.v)
    /\ ~HoldsToolUse(call.ret.v)
    /\ call.ret.v.stop_reason = "tool_use"

\* C30: RequestConverter.convert leaves the inbound request as it was, with
\* its messages, blocks, tools and tool_choice, and ResponseConverter.convert
\* leaves the outbound response as it was, whether the call returns or
\* raises: every store of a conversion goes into an object the converter
\* created.
C30_ArgumentUnchanged ==
    /\ call.op = "RequestConverter.convert" =>
          /\ call.after = call.arg
          /\ \A i \in 1..Len(RequestConverterStores(call.arg)) :
                 RequestConverterStores(call.arg)[i].local
    /\ call.op = "ResponseConverter.convert" =>
          /\ call.after = call.arg
          /\ \A i \in 1..Len(ResponseConverterStores(call.arg)) :
                 ResponseConverterStores(call.arg)[i].local

\* A request whose assistant message holds a tool_use block was converted:
\* the conversion stored into message_dict and tool_calls.
C30_Witness ==
    /\ call.op = "RequestConverter.convert"
    /\ ~Raised(call.ret)
    /\ \E i \in 1..Len(RequestConverterStores(call.arg)) :
           RequestConverterStores(call.arg)[i] = LocalStore("message_dict")
    /\ \E i \in 1..Len(call.ret.v.messages) : "tool_calls" \in DOMAIN call.ret.v.messages[i]

\* A response with an error was converted: the call raised.
C30_WitnessError ==
    /\ call.op = "ResponseConverter.convert"
    /\ "error" \in DOMAIN call.arg
    /\ Raised(call.ret)
    /\ call.after = call.arg

=============================================================================
